---- MODULE Spec2Model ----
(***************************************************************************)
(* A model of the shrine secret store (cpollet/tombeau):                   *)
(*   - the typed shrine state machine of src/src/shrine/local.rs           *)
(*     (Open/Closed x Clear/Aes<NoPassword>/Aes<Password>),                *)
(*   - the passphrase-caching agent of src/src/agent/server.rs.            *)
(* The Holder, the serializer and the encryptor are not part of the        *)
(* sources at hand; they are modelled from their contract in spec.md.      *)
(***************************************************************************)
EXTENDS Integers, Sequences, FiniteSets, TLC

(***************************************************************************)
(* Bounds and input sets                                                   *)
(***************************************************************************)
\* lookup strings, as sequences of characters: "a", ".a", "b"
LookupKeys == { <<"a">>, <<".", "a">>, <<"b">> }

\* secret byte strings
SecretValues == { <<1>>, <<2, 1>> }

Modes == {"Text", "Binary"}

PassphraseSet == {"p", "q"}

\* the values of one byte of the model
Bytes == 0..7

Nonces == {0, 3}

NoPassword == "NoPassword"

None == "None"

(***************************************************************************)
(* Secret                                                                  *)
(***************************************************************************)
SecretNew(value, mode) == [value |-> value, mode |-> mode]

\* Secret::with_data: replaces the data and the mode in place
SecretWithData(secret, value, mode) == [secret EXCEPT !.value = value, !.mode = mode]

(***************************************************************************)
(* Holder: two namespaces of key -> secret                                 *)
(***************************************************************************)
Ok(v) == [ok |-> TRUE, val |-> v, err |-> None]

Err(e) == [ok |-> FALSE, val |-> None, err |-> e]

\* the values of enum Error used here
KeyNotFound(key) == [kind |-> "KeyNotFound", key |-> key]

InvalidKey(key) == [kind |-> "InvalidKey", key |-> key]

CryptoRead == [kind |-> "CryptoRead", key |-> <<>>]

SerdeError == [kind |-> "Serialization", key |-> <<>>]

EmptyMap == [k \in {} |-> None]

MapPut(m, k, v) == [x \in (DOMAIN m) \cup {k} |-> IF x = k THEN v ELSE m[x]]

MapDel(m, k) == [x \in (DOMAIN m) \ {k} |-> m[x]]

HolderNew == [pub |-> EmptyMap, priv |-> EmptyMap]

StartsWithDot(key) == Len(key) > 0 /\ key[1] = "."

HolderGet(h, key) ==
    IF key \in DOMAIN h.pub THEN Ok(h.pub[key]) ELSE Err(KeyNotFound(key))

HolderSet(h, key, secret) ==
    IF StartsWithDot(key)
    THEN Err(InvalidKey(key))
    ELSE Ok([h EXCEPT !.pub = MapPut(h.pub, key, secret)])

HolderGetPrivate(h, key) ==
    IF key \in DOMAIN h.priv THEN Ok(h.priv[key]) ELSE Err(KeyNotFound(key))

HolderSetPrivate(h, key, secret) ==
    Ok([h EXCEPT !.priv = MapPut(h.priv, key, secret)])

\* remove(key) -> bool; val is the holder after the call
HolderRemove(h, key) ==
    [removed |-> key \in DOMAIN h.pub, val |-> [h EXCEPT !.pub = MapDel(h.pub, key)]]

HolderKeys(h) == DOMAIN h.pub

HolderKeysPrivate(h) == DOMAIN h.priv

(***************************************************************************)
(* Serializer (binary document): Holder <-> bytes                          *)
(*   holder  := map(pub) map(priv)                                         *)
(*   map     := count entry*          (entries in key order)               *)
(*   entry   := len char* len byte* mode                                   *)
(***************************************************************************)
CharCode(c) == CASE c = "." -> 0 [] c = "a" -> 1 [] c = "b" -> 2 [] OTHER -> 3

CodeChar(b) == CASE b = 0 -> "." [] b = 1 -> "a" [] b = 2 -> "b" [] OTHER -> None

ModeCode(m) == IF m = "Text" THEN 0 ELSE 1

RECURSIVE KeyRank(_)
KeyRank(key) == IF key = <<>> THEN 0 ELSE 1 + CharCode(key[1]) + 4 * KeyRank(Tail(key))

MinKey(ks) == CHOOSE k \in ks : \A o \in ks : KeyRank(k) <= KeyRank(o)

SerKey(key) == <<Len(key)>> \o [i \in 1..Len(key) |-> CharCode(key[i])]

SerSecret(secret) == <<Len(secret.value)>> \o secret.value \o <<ModeCode(secret.mode)>>

RECURSIVE SerEntries(_, _)
SerEntries(m, ks) ==
    IF ks = {} THEN <<>>
    ELSE LET k == MinKey(ks)
         IN SerKey(k) \o SerSecret(m[k]) \o SerEntries(m, ks \ {k})

SerMap(m) == <<Cardinality(DOMAIN m)>> \o SerEntries(m, DOMAIN m)

\* Serializer::serialize
Serialize(h) == SerMap(h.pub) \o SerMap(h.priv)

\* the bytes b[from..from+n-1]
Slice(b, from, n) == [i \in 1..n |-> b[from + i - 1]]

\* parses n entries of b starting at pos; [ok, pos, map]
RECURSIVE ParseEntries(_, _, _, _)
ParseEntries(b, pos, n, acc) ==
    IF n = 0 THEN [ok |-> TRUE, pos |-> pos, map |-> acc]
    ELSE IF pos > Len(b) \/ pos + b[pos] > Len(b)
    THEN [ok |-> FALSE, pos |-> pos, map |-> acc]
    ELSE LET klen  == b[pos]
             kraw  == Slice(b, pos + 1, klen)
             vpos  == pos + 1 + klen
         IN IF \E i \in 1..klen : CodeChar(kraw[i]) = None
            THEN [ok |-> FALSE, pos |-> pos, map |-> acc]
            ELSE IF vpos > Len(b) \/ vpos + b[vpos] + 1 > Len(b)
            THEN [ok |-> FALSE, pos |-> pos, map |-> acc]
            ELSE LET vlen == b[vpos]
                     val  == Slice(b, vpos + 1, vlen)
                     mc   == b[vpos + 1 + vlen]
                     key  == [i \in 1..klen |-> CodeChar(kraw[i])]
                 IN IF mc \notin {0, 1}
                    THEN [ok |-> FALSE, pos |-> pos, map |-> acc]
                    ELSE ParseEntries(b, vpos + vlen + 2, n - 1,
                             MapPut(acc, key,
                                 SecretNew(val, IF mc = 0 THEN "Text" ELSE "Binary")))

ParseMap(b, pos) ==
    IF pos > Len(b) THEN [ok |-> FALSE, pos |-> pos, map |-> EmptyMap]
    ELSE ParseEntries(b, pos + 1, b[pos], EmptyMap)

\* Serializer::deserialize
Deserialize(b) ==
    LET p1 == ParseMap(b, 1)
    IN IF ~p1.ok THEN Err(SerdeError)
       ELSE LET p2 == ParseMap(b, p1.pos)
            IN IF ~p2.ok \/ p2.pos # Len(b) + 1 THEN Err(SerdeError)
               ELSE Ok([pub |-> p1.map, priv |-> p2.map])

(***************************************************************************)
(* Encryptor: authenticated encryption with a passphrase-derived key       *)
(*   blob := nonce | ciphertext | tag                                      *)
(***************************************************************************)
ByteMod == Cardinality(Bytes)

\* key derivation from the passphrase
DeriveKey(password) == CASE password = "p" -> 1 [] password = "q" -> 2 [] OTHER -> 5

AadCode(aad) == IF aad = None THEN 0 ELSE aad

RECURSIVE SumBytes(_)
SumBytes(b) == IF b = <<>> THEN 0 ELSE b[1] + SumBytes(Tail(b))

AuthTag(clear, k, aad) ==
    (SumBytes(clear) + (Len(clear) + 1) * k + AadCode(aad)) % ByteMod

\* Encryptor::encrypt, with the nonce drawn by the caller
Encrypt(clear, password, aad, nonce) ==
    LET k == (DeriveKey(password) + nonce) % ByteMod
    IN <<nonce>> \o [i \in 1..Len(clear) |-> (clear[i] + k) % ByteMod]
                 \o <<AuthTag(clear, k, aad)>>

\* Encryptor::decrypt: the clear bytes, or CryptoRead
Decrypt(blob, password, aad) ==
    IF Len(blob) < 2 THEN Err(CryptoRead)
    ELSE LET k     == (DeriveKey(password) + blob[1]) % ByteMod
             n     == Len(blob) - 2
             clear == [i \in 1..n |-> (blob[i + 1] - k) % ByteMod]
         IN IF AuthTag(clear, k, aad) = blob[Len(blob)]
            THEN Ok(clear)
            ELSE Err(CryptoRead)

(***************************************************************************)
(* LocalShrine<S, E>: the payload is Open{secrets} or Closed(bytes), the   *)
(* encryption is Clear, Aes<NoPassword> or Aes<Password>                   *)
(***************************************************************************)
Uuids == {1, 2}

\* Open { secrets }; no bytes are held
OpenPayload(secrets) == [kind |-> "Open", secrets |-> secrets, bytes |-> <<>>]

\* Closed(bytes); the secrets were moved out
ClosedPayload(bytes) == [kind |-> "Closed", secrets |-> HolderNew, bytes |-> bytes]

Clear == [kind |-> "Clear", password |-> NoPassword]

AesNoPassword == [kind |-> "Aes", password |-> NoPassword]

AesPassword(password) == [kind |-> "Aes", password |-> password]

\* impl Default for LocalShrine<Open, Aes<NoPassword>>, with the uuid drawn
LocalShrineDefault(uuid) ==
    [ magic_number |-> "shrine",
      metadata     |-> [ uuid                 |-> uuid,
                         encryption_algorithm |-> "Aes",
                         serialization_format |-> "Bson" ],
      payload      |-> OpenPayload(HolderNew),
      encryption   |-> AesNoPassword ]

IsOpen(s) == s.payload.kind = "Open"

IsClosed(s) == s.payload.kind = "Closed"

HasPassword(s) == s.encryption.kind = "Aes" /\ s.encryption.password # NoPassword

\* the secret operations offered on a shrine in any state
QueryOpenAnyState(s) == TRUE

\* the receiver types of the impl blocks
QueryOpenImpl(s) == IsOpen(s)

OpenAesImpl(s) == IsOpen(s) /\ s.encryption.kind = "Aes"

OpenAesNoPasswordImpl(s) == IsOpen(s) /\ s.encryption = AesNoPassword

OpenAesPasswordImpl(s) == IsOpen(s) /\ HasPassword(s)

OpenClearImpl(s) == IsOpen(s) /\ s.encryption = Clear

ClosedClearImpl(s) == IsClosed(s) /\ s.encryption = Clear

ClosedAesImpl(s) == IsClosed(s) /\ s.encryption = AesNoPassword

\* key.strip_prefix('.'): Some(rest) when HasPrefixDot(key)
HasPrefixDot(key) == StartsWithDot(key)

StripPrefixDot(key) == Tail(key)

WithSecrets(s, h) == [s EXCEPT !.payload = OpenPayload(h)]

\* a set that leaves a key that exists as it is
LocalSetIfAbsent(s, key, value, mode) ==
    LET h == s.payload.secrets
    IN IF HasPrefixDot(key)
       THEN IF StripPrefixDot(key) \in DOMAIN h.priv
            THEN Ok(s)
            ELSE Ok(WithSecrets(s, HolderSetPrivate(h, StripPrefixDot(key),
                                                    SecretNew(value, mode)).val))
       ELSE IF key \in DOMAIN h.pub
            THEN Ok(s)
            ELSE Ok(WithSecrets(s, [h EXCEPT !.pub = MapPut(h.pub, key,
                                                            SecretNew(value, mode))]))

\* QueryOpen::set
LocalSet(s, key, value, mode) ==
    IF HasPrefixDot(key)
    THEN LET r == HolderSetPrivate(s.payload.secrets, StripPrefixDot(key),
                                   SecretNew(value, mode))
         IN IF r.ok THEN Ok(WithSecrets(s, r.val)) ELSE r
    ELSE LET g == HolderGet(s.payload.secrets, key)
         IN IF g.ok
            THEN Ok(WithSecrets(s,
                     [s.payload.secrets EXCEPT
                         !.pub[key] = SecretWithData(g.val, value, mode)]))
            ELSE IF g.err.kind = "KeyNotFound"
            THEN LET r == HolderSet(s.payload.secrets, key, SecretNew(value, mode))
                 IN IF r.ok THEN Ok(WithSecrets(s, r.val)) ELSE r
            ELSE g

\* QueryOpen::get
LocalGet(s, key) ==
    IF HasPrefixDot(key)
    THEN HolderGetPrivate(s.payload.secrets, StripPrefixDot(key))
    ELSE HolderGet(s.payload.secrets, key)

\* QueryOpen::rm
LocalRm(s, key) ==
    LET r == HolderRemove(s.payload.secrets, key)
    IN [removed |-> r.removed, val |-> WithSecrets(s, r.val)]

\* a move that adds the source's secrets to those of the destination
LocalMvMerges(src, other) ==
    [other EXCEPT !.payload = OpenPayload(
        [pub  |-> [k \in DOMAIN other.payload.secrets.pub \cup DOMAIN src.payload.secrets.pub |->
                      IF k \in DOMAIN src.payload.secrets.pub
                      THEN src.payload.secrets.pub[k] ELSE other.payload.secrets.pub[k]],
         priv |-> [k \in DOMAIN other.payload.secrets.priv \cup DOMAIN src.payload.secrets.priv |->
                      IF k \in DOMAIN src.payload.secrets.priv
                      THEN src.payload.secrets.priv[k] ELSE other.payload.secrets.priv[k]]])]

\* QueryOpen::mv into OpenShrine::LocalClear or OpenShrine::LocalAes
LocalMv(src, other) == [other EXCEPT !.payload = src.payload]

\* QueryOpen::keys
LocalKeys(s) == HolderKeys(s.payload.secrets)

\* QueryOpen::keys_private
LocalKeysPrivate(s) == HolderKeysPrivate(s.payload.secrets)

\* an into_clear that leaves the algorithm of the metadata as it was
IntoClearKeepsAlgorithm(s) == [s EXCEPT !.encryption = Clear]

\* LocalShrine<Open, Aes<T>>::into_clear
IntoClear(s) ==
    [s EXCEPT !.metadata.encryption_algorithm = "Plain", !.encryption = Clear]

\* LocalShrine<Open, Aes<T>>::set_password
SetPassword(s, password) == [s EXCEPT !.encryption = AesPassword(password)]

\* LocalShrine<Open, Clear>::into_aes
IntoAes(s) ==
    [s EXCEPT !.metadata.encryption_algorithm = "Aes", !.encryption = AesNoPassword]

\* LocalShrine<Open, Clear>::into_aes_with_password
IntoAesWithPassword(s, password) ==
    [IntoAes(s) EXCEPT !.encryption = AesPassword(password)]

\* SerializationFormat
Formats == {"Bson", "Json"}

\* a change of format that starts from a new default shrine
WithSerializationFormatOfDefault(s, format) ==
    [LocalShrineDefault(CHOOSE u \in Uuids : u # s.metadata.uuid) EXCEPT
        !.metadata.encryption_algorithm = s.metadata.encryption_algorithm,
        !.metadata.serialization_format = format,
        !.payload = s.payload,
        !.encryption = s.encryption]

\* LocalShrine<Open, T>::with_serialization_format
WithSerializationFormat(s, format) ==
    [s EXCEPT !.metadata.serialization_format = format]

\* Uuid::new_v4: a uuid that no shrine in use carries (a collision of two
\* random 122-bit values is left out)
NewV4(used) == Uuids \ used

\* a conversion made in place, on the shrine that was opened
ConvertInPlace(s, uuid, encryption, password) ==
    IF encryption = "Plain" THEN [s EXCEPT !.metadata.encryption_algorithm = "Plain",
                                           !.encryption = Clear]
    ELSE [s EXCEPT !.metadata.encryption_algorithm = "Aes",
                   !.encryption = AesPassword(password)]

\* convert: a new shrine with a new uuid is made for the wanted algorithm and
\* passphrase, and the opened shrine is moved into it
ConvertShrine(s, uuid, encryption, password) ==
    LET new == LocalShrineDefault(uuid)
    IN LocalMv(s, IF encryption = "Plain" THEN IntoClear(new)
                                          ELSE SetPassword(new, password))

\* EncryptionAlgorithm::encryptor(password, None).encrypt
AlgoEncrypt(algo, clear, password, nonce) ==
    IF algo = "Aes" THEN Encrypt(clear, password, None, nonce) ELSE clear

\* a decryptor that hands the payload back as it is
AlgoDecryptNoCipher(algo, bytes, password) == Ok(bytes)

\* EncryptionAlgorithm::encryptor(password, None).decrypt
AlgoDecrypt(algo, bytes, password) ==
    IF algo = "Aes" THEN Decrypt(bytes, password, None) ELSE Ok(bytes)

\* close that encrypts without the passphrase of the shrine
AesCloseDropsPassword(s, nonce) ==
    LET clear_bytes  == Serialize(s.payload.secrets)
        cipher_bytes == AlgoEncrypt(s.metadata.encryption_algorithm, clear_bytes,
                                    NoPassword, nonce)
    IN Ok([s EXCEPT !.payload = ClosedPayload(cipher_bytes),
                    !.encryption = AesNoPassword])

\* LocalShrine<Open, Aes<Password>>::close
AesClose(s, nonce) ==
    LET clear_bytes  == Serialize(s.payload.secrets)
        cipher_bytes == AlgoEncrypt(s.metadata.encryption_algorithm, clear_bytes,
                                    s.encryption.password, nonce)
    IN Ok([s EXCEPT !.payload = ClosedPayload(cipher_bytes),
                    !.encryption = AesNoPassword])

\* LocalShrine<Open, Aes<NoPassword>>::close(password)
AesNoPasswordClose(s, password, nonce) == AesClose(SetPassword(s, password), nonce)

\* LocalShrine<Open, Clear>::close
ClearClose(s) ==
    Ok([s EXCEPT !.payload = ClosedPayload(Serialize(s.payload.secrets)),
                 !.encryption = Clear])

\* open of a clear shrine that runs the payload through the decryptor
ClearOpenDecrypts(s) ==
    LET clear_bytes == Decrypt(s.payload.bytes, NoPassword, None)
    IN IF ~clear_bytes.ok THEN clear_bytes
       ELSE LET secrets == Deserialize(clear_bytes.val)
            IN IF ~secrets.ok THEN secrets
               ELSE Ok([s EXCEPT !.payload = OpenPayload(secrets.val),
                                 !.encryption = Clear])

\* LocalShrine<Closed, Clear>::open
ClearOpen(s) ==
    LET secrets == Deserialize(s.payload.bytes)
    IN IF ~secrets.ok THEN secrets
       ELSE Ok([s EXCEPT !.payload = OpenPayload(secrets.val), !.encryption = Clear])

\* open that goes on with no bytes when the decryption fails
AesOpenUnchecked(s, password) ==
    LET clear_bytes == AlgoDecrypt(s.metadata.encryption_algorithm,
                                   s.payload.bytes, password)
        secrets     == Deserialize(IF clear_bytes.ok THEN clear_bytes.val ELSE <<0, 0>>)
    IN IF ~secrets.ok THEN secrets
       ELSE Ok([s EXCEPT !.payload = OpenPayload(secrets.val),
                         !.encryption = AesPassword(password)])

\* LocalShrine<Closed, Aes<NoPassword>>::open(password)
AesOpen(s, password) ==
    LET clear_bytes == AlgoDecrypt(s.metadata.encryption_algorithm,
                                   s.payload.bytes, password)
    IN IF ~clear_bytes.ok THEN clear_bytes
       ELSE LET secrets == Deserialize(clear_bytes.val)
            IN IF ~secrets.ok THEN secrets
               ELSE Ok([s EXCEPT !.payload = OpenPayload(secrets.val),
                                 !.encryption = AesPassword(password)])

(***************************************************************************)
(* File codec: the borsh layout of LocalShrine<Closed, T>.  A byte is one  *)
(* of Bytes; the uuid takes one byte instead of 16 and the u32 length of   *)
(* the payload two digits instead of four, low digit first.                *)
(***************************************************************************)
\* "shrine".as_bytes(), one code per letter
MagicBytes == <<6, 5, 4, 3, 2, 1>>

\* shrine::VERSION
VERSION == 0

\* the borsh index of Metadata::V0: the version byte
MetadataV0 == 0

\* EncryptionAlgorithm as one byte
EncryptionTag(algo) == IF algo = "Plain" THEN 0 ELSE 1

\* SerializationFormat as one byte
FormatTag(format) == IF format = "Bson" THEN 0 ELSE 1

EncryptionTags == {0, 1}

FormatTags == {0, 1}

TagEncryption(tag) == IF tag = 0 THEN "Plain" ELSE "Aes"

TagFormat(tag) == IF tag = 0 THEN "Bson" ELSE "Json"

\* a length written on its low digit alone
LengthBytesLowDigit(n) == <<n % ByteMod, 0>>

\* the length of a Vec<u8>, little-endian
LengthBytes(n) == <<n % ByteMod, n \div ByteMod>>

BytesLength(lo, hi) == lo + ByteMod * hi

\* where the header ends: magic, version, uuid, two tags, length
HeaderLen == Len(MagicBytes) + 6

Error(kind) == [kind |-> kind, key |-> <<>>]

\* Error::UnsupportedVersion(v)
UnsupportedVersion(v) == [kind |-> "UnsupportedVersion", key |-> <<v>>]

\* a panic of the thread: index out of bounds
Panic == Err(Error("Panic"))

\* LocalShrine<Closed, T>::try_to_bytes
TryToBytes(s) ==
    MagicBytes
        \o <<MetadataV0, s.metadata.uuid,
              EncryptionTag(s.metadata.encryption_algorithm),
              FormatTag(s.metadata.serialization_format)>>
        \o LengthBytes(Len(s.payload.bytes))
        \o s.payload.bytes

\* LocalShrine::<Closed, Unknown>::try_from_slice: every byte is read, and none
\* is left over
TryFromSlice(bytes) ==
    IF Len(bytes) < HeaderLen THEN Err(Error("IoRead"))
    ELSE IF bytes[7] # MetadataV0 THEN Err(Error("IoRead"))
    ELSE IF bytes[9] \notin EncryptionTags \/ bytes[10] \notin FormatTags
    THEN Err(Error("IoRead"))
    ELSE IF Len(bytes) # HeaderLen + BytesLength(bytes[11], bytes[12])
    THEN Err(Error("IoRead"))
    ELSE Ok([ magic_number |-> "shrine",
              metadata     |-> [ uuid                 |-> bytes[8],
                                 encryption_algorithm |-> TagEncryption(bytes[9]),
                                 serialization_format |-> TagFormat(bytes[10]) ],
              payload      |-> ClosedPayload(SubSeq(bytes, HeaderLen + 1, Len(bytes))),
              encryption   |-> "Unknown" ])

\* a load that parses the file before it looks at the magic number
TryFromBytesParsesFirst(bytes) ==
    LET shrine == TryFromSlice(bytes)
    IN IF ~shrine.ok THEN shrine
       ELSE IF SubSeq(bytes, 1, 6) # MagicBytes THEN Err(Error("Read"))
       ELSE Ok([shrine.val EXCEPT !.encryption =
                   IF shrine.val.metadata.encryption_algorithm = "Aes"
                   THEN AesNoPassword ELSE Clear])

\* a load that leaves the version byte to the parser
TryFromBytesNoVersionCheck(bytes) ==
    IF Len(bytes) < 6 \/ SubSeq(bytes, 1, 6) # MagicBytes THEN Err(Error("Read"))
    ELSE LET shrine == TryFromSlice(bytes)
         IN IF ~shrine.ok THEN shrine
            ELSE Ok([shrine.val EXCEPT !.encryption =
                        IF shrine.val.metadata.encryption_algorithm = "Aes"
                        THEN AesNoPassword ELSE Clear])

\* LoadedShrine::try_from_bytes
TryFromBytes(bytes) ==
    IF Len(bytes) < 6 \/ SubSeq(bytes, 1, 6) # MagicBytes THEN Err(Error("Read"))
    ELSE IF Len(bytes) < 7 THEN Panic
    ELSE IF bytes[7] > VERSION THEN Err(UnsupportedVersion(bytes[7]))
    ELSE LET shrine == TryFromSlice(bytes)
         IN IF ~shrine.ok THEN shrine
            ELSE Ok([shrine.val EXCEPT !.encryption =
                        IF shrine.val.metadata.encryption_algorithm = "Aes"
                        THEN AesNoPassword ELSE Clear])

(***************************************************************************)
(* OpenShrine<L>: LocalClear, LocalAes or Remote                            *)
(***************************************************************************)
\* OpenShrine::Remote(RemoteShrine): the facade carries the path and the client
RemoteShrine(path) == [variant |-> "Remote", path |-> path]

\* OpenShrine::LocalClear(s) / OpenShrine::LocalAes(s)
LocalOpenShrine(s) ==
    [variant |-> IF s.encryption = Clear THEN "LocalClear" ELSE "LocalAes", shrine |-> s]

\* QueryOpen::mv, its three arms: unimplemented! aborts the process
QueryOpenMv(src, other) ==
    IF other.variant = "Remote"
    THEN [Panic EXCEPT !.val = other]
    ELSE Ok(LocalOpenShrine(LocalMv(src, other.shrine)))

(***************************************************************************)
(* State                                                                   *)
(***************************************************************************)
VARIABLES
    shrine,     \* the shrine value held by the caller
    sealed,     \* what the last close sealed: the holder and the passphrase
    tampered,   \* whether the closed payload was altered since the close
    last,       \* the last operation and what it returned
    passwords,  \* AgentState.passwords: uuid -> (atime, passphrase)
    now,        \* the clock read by Utc::now()
    next_sweep, \* when the sweeper job fires next
    lookup,     \* the last get_password and what it returned
    files,      \* the file system: path -> file
    clients,    \* the /keys request of each client and its answer
    corrupted,  \* whether a file was altered outside the agent
    buffer,     \* the bytes of a shrine file, as written and then edited
    read,       \* the last try_from_bytes: its bytes and what it returned
    handle,     \* the shrine a client process got from shrine::new, and its open
    agents,     \* the agent processes: where each one is in serve
    disk        \* the pid file and the socket file: who made each one

shrineVars == <<shrine, sealed, tampered, last>>

cacheVars == <<passwords, now, next_sweep, lookup>>

agentVars == <<files, clients, corrupted>>

loadVars == <<buffer, read, handle>>

serveVars == <<agents, disk>>

vars == <<shrine, sealed, tampered, last, passwords, now, next_sweep, lookup,
          files, clients, corrupted, buffer, read, handle, agents, disk>>

\* at most this many secrets are put in one holder
MaxSecrets == 2

NoKey == <<>>

NotSealed == [set |-> FALSE, secrets |-> HolderNew, password |-> NoPassword,
              closed |-> <<>>]

\* s is the Open shrine that was closed, closed the bytes the close produced
Sealed(s, closed) == [set |-> TRUE, secrets |-> s.payload.secrets,
                      password |-> s.encryption.password, closed |-> closed]

Did(op, key, password, ok, err, found, keys, before) ==
    [ op |-> op, key |-> key, password |-> password, ok |-> ok, err |-> err,
      found |-> found, keys |-> keys,
      access |-> before.payload.kind, variant |-> before.encryption ]

ErrKind(r) == IF r.ok THEN None ELSE r.err.kind

InitShrine(uuids) ==
    /\ \E uuid \in uuids : shrine = LocalShrineDefault(uuid)
    /\ sealed = NotSealed
    /\ tampered = FALSE
    /\ last = Did("new", NoKey, NoPassword, TRUE, None, {}, {}, LocalShrineDefault(1))

HolderSize(h) == Cardinality(DOMAIN h.pub) + Cardinality(DOMAIN h.priv)

\* a shrine opened from an altered payload is not used any further, and
\* nothing runs after a panic
Usable == ~tampered /\ last.err # "Panic"

Set(key, value, mode) ==
    /\ Usable
    /\ QueryOpenImpl(shrine)
    /\ LET r == LocalSet(shrine, key, value, mode)
       IN /\ r.ok => HolderSize(r.val.payload.secrets) <= MaxSecrets
          /\ shrine' = IF r.ok THEN r.val ELSE shrine
          /\ last' = Did("set", key, NoPassword, r.ok, ErrKind(r),
                         {SecretNew(value, mode)}, {}, shrine)
                         @@ [existed |-> LocalGet(shrine, key).ok]
    /\ sealed' = NotSealed
    /\ UNCHANGED tampered
    /\ UNCHANGED <<cacheVars, agentVars, loadVars, serveVars>>

Get(key) ==
    /\ Usable
    /\ QueryOpenImpl(shrine)
    /\ LET r == LocalGet(shrine, key)
       IN last' = Did("get", key, NoPassword, r.ok, ErrKind(r),
                      IF r.ok THEN {r.val} ELSE {}, {}, shrine)
    /\ sealed' = NotSealed
    /\ UNCHANGED <<shrine, tampered>>
    /\ UNCHANGED <<cacheVars, agentVars, loadVars, serveVars>>

Rm(key) ==
    /\ Usable
    /\ QueryOpenImpl(shrine)
    /\ LET r == LocalRm(shrine, key)
       IN /\ shrine' = r.val
          /\ last' = Did("rm", key, NoPassword, r.removed, None, {}, {}, shrine)
    /\ sealed' = NotSealed
    /\ UNCHANGED tampered
    /\ UNCHANGED <<cacheVars, agentVars, loadVars, serveVars>>

\* the Open shrines that are moved into the shrine of the caller
MvSources ==
    { WithSecrets(LocalShrineDefault(2), h) :
        h \in { HolderNew,
                [pub  |-> MapPut(EmptyMap, <<"b">>, SecretNew(<<2, 1>>, "Binary")),
                 priv |-> MapPut(EmptyMap, <<"a">>, SecretNew(<<1>>, "Text"))] } }

\* src.mv(&mut shrine): the destination is an OpenShrine, Clear or AES with
\* its passphrase
Mv(src) ==
    /\ Usable
    /\ QueryOpenImpl(src)
    /\ OpenClearImpl(shrine) \/ OpenAesPasswordImpl(shrine)
    /\ shrine' = LocalMv(src, shrine)
    /\ last' = Did("mv", NoKey, NoPassword, TRUE, None, {}, {}, shrine)
                   @@ [source |-> src.payload.secrets]
    /\ sealed' = NotSealed
    /\ UNCHANGED tampered
    /\ UNCHANGED <<cacheVars, agentVars, loadVars, serveVars>>

\* shrine.mv(&mut other), other being an OpenShrine::Remote
MvIntoRemote(path) ==
    /\ Usable
    /\ OpenClearImpl(shrine) \/ OpenAesPasswordImpl(shrine)
    /\ LET r == QueryOpenMv(shrine, RemoteShrine(path))
       IN last' = Did("mv_remote", NoKey, NoPassword, r.ok, ErrKind(r), {}, {}, shrine)
                      @@ [remote |-> r.val]
    /\ sealed' = NotSealed
    /\ UNCHANGED <<shrine, tampered>>
    /\ UNCHANGED <<cacheVars, agentVars, loadVars, serveVars>>

\* the --encryption option of convert
EncryptionOptions == {None, "Plain", "Aes"}

\* the --new-password option of convert, with --change-password
PasswordOptions == {None} \cup PassphraseSet

\* shrine convert, on the shrine as it was opened from its file
DoConvert(uuid, encryption, new_password) ==
    /\ Usable
    /\ OpenClearImpl(shrine) \/ OpenAesPasswordImpl(shrine)
    /\ uuid \in NewV4({shrine.metadata.uuid})
    /\ LET algo     == IF encryption = None THEN shrine.metadata.encryption_algorithm
                                            ELSE encryption
           password == IF new_password # None THEN new_password
                       ELSE IF HasPassword(shrine) THEN shrine.encryption.password
                       ELSE "p"
           s        == ConvertShrine(shrine, uuid, algo, password)
       IN /\ shrine' = s
          /\ last' = Did("convert", NoKey, s.encryption.password, TRUE, None, {}, {}, shrine)
    /\ sealed' = NotSealed
    /\ UNCHANGED tampered
    /\ UNCHANGED <<cacheVars, agentVars, loadVars, serveVars>>

Keys ==
    /\ Usable
    /\ QueryOpenImpl(shrine)
    /\ last' = Did("keys", NoKey, NoPassword, TRUE, None, {}, LocalKeys(shrine), shrine)
    /\ sealed' = NotSealed
    /\ UNCHANGED <<shrine, tampered>>
    /\ UNCHANGED <<cacheVars, agentVars, loadVars, serveVars>>

KeysPrivate ==
    /\ Usable
    /\ QueryOpenImpl(shrine)
    /\ last' = Did("keys_private", NoKey, NoPassword, TRUE, None, {},
                   LocalKeysPrivate(shrine), shrine)
    /\ sealed' = NotSealed
    /\ UNCHANGED <<shrine, tampered>>
    /\ UNCHANGED <<cacheVars, agentVars, loadVars, serveVars>>

Convert(op, s) ==
    /\ Usable
    /\ shrine' = s
    /\ last' = Did(op, NoKey, s.encryption.password, TRUE, None, {}, {}, shrine)
    /\ sealed' = NotSealed
    /\ UNCHANGED tampered
    /\ UNCHANGED <<cacheVars, agentVars, loadVars, serveVars>>

DoIntoClear == OpenAesImpl(shrine) /\ Convert("into_clear", IntoClear(shrine))

DoSetPassword(password) ==
    OpenAesImpl(shrine) /\ Convert("set_password", SetPassword(shrine, password))

DoIntoAes == OpenClearImpl(shrine) /\ Convert("into_aes", IntoAes(shrine))

DoIntoAesWithPassword(password) ==
    /\ OpenClearImpl(shrine)
    /\ Convert("into_aes_with_password", IntoAesWithPassword(shrine, password))

Close(r, s) ==
    /\ Usable
    /\ shrine' = IF r.ok THEN r.val ELSE shrine
    /\ sealed' = IF r.ok THEN Sealed(s, r.val.payload.bytes) ELSE NotSealed
    /\ tampered' = FALSE
    /\ last' = Did("close", NoKey, s.encryption.password, r.ok, ErrKind(r), {}, {}, shrine)
    /\ UNCHANGED <<cacheVars, agentVars, loadVars, serveVars>>

DoAesNoPasswordClose(password, nonce) ==
    /\ OpenAesNoPasswordImpl(shrine)
    /\ Close(AesNoPasswordClose(shrine, password, nonce), SetPassword(shrine, password))

DoAesClose(nonce) ==
    /\ OpenAesPasswordImpl(shrine)
    /\ Close(AesClose(shrine, nonce), shrine)

DoClearClose ==
    /\ OpenClearImpl(shrine)
    /\ Close(ClearClose(shrine), shrine)

\* open consumes the closed shrine; on an error the caller keeps its clone
Open(r, password) ==
    /\ shrine' = IF r.ok THEN r.val ELSE shrine
    /\ last' = Did("open", NoKey, password, r.ok, ErrKind(r), {}, {}, shrine)
    /\ UNCHANGED <<sealed, tampered>>
    /\ UNCHANGED <<cacheVars, agentVars, loadVars, serveVars>>

DoClearOpen == ClosedClearImpl(shrine) /\ Open(ClearOpen(shrine), NoPassword)

DoAesOpen(password) == ClosedAesImpl(shrine) /\ Open(AesOpen(shrine, password), password)

\* b with bit j flipped
FlipBit(b, j) == IF (b \div (2 ^ j)) % 2 = 1 THEN b - 2 ^ j ELSE b + 2 ^ j

BitsOfByte == {j \in 0..ByteMod : 2 ^ (j + 1) <= ByteMod}

\* somebody flips bit j of byte i of the closed payload
Tamper(i, j) ==
    /\ IsClosed(shrine)
    /\ ~tampered
    /\ last.op = "close"
    /\ i \in 1..Len(shrine.payload.bytes)
    /\ shrine' = [shrine EXCEPT !.payload.bytes[i] = FlipBit(@, j)]
    /\ tampered' = TRUE
    /\ UNCHANGED <<sealed, last>>
    /\ UNCHANGED <<cacheVars, agentVars, loadVars, serveVars>>

Next ==
    \/ \E key \in LookupKeys, value \in SecretValues, mode \in Modes : Set(key, value, mode)
    \/ \E key \in LookupKeys : Get(key)
    \/ \E key \in LookupKeys : Rm(key)
    \/ \E src \in MvSources : Mv(src)
    \/ \E path \in {"P"} : MvIntoRemote(path)
    \/ \E uuid \in Uuids, encryption \in EncryptionOptions, new_password \in PasswordOptions :
           DoConvert(uuid, encryption, new_password)
    \/ Keys
    \/ KeysPrivate
    \/ DoIntoClear
    \/ \E password \in PassphraseSet : DoSetPassword(password)
    \/ DoIntoAes
    \/ \E password \in PassphraseSet : DoIntoAesWithPassword(password)
    \/ \E password \in PassphraseSet, nonce \in Nonces : DoAesNoPasswordClose(password, nonce)
    \/ \E nonce \in Nonces : DoAesClose(nonce)
    \/ DoClearClose
    \/ DoClearOpen
    \/ \E password \in PassphraseSet : DoAesOpen(password)
    \/ \E i \in 1..(4 * (MaxSecrets + 2)), j \in BitsOfByte : Tamper(i, j)

(***************************************************************************)
(* Agent cache: AgentState.passwords, a HashMap<Uuid, (DateTime, password)>.*)
(* One unit of time is a third of the sweeper's period; the TTL is scaled  *)
(* to two periods.                                                         *)
(***************************************************************************)
\* chrono::Duration::minutes(15), scaled
TTL == 6

\* Duration::from_secs(1), the period of the sweeper job, scaled
SweepPeriod == 3

\* the clock stops here
MaxTime == 8

ATimePassword(atime, password) == [atime |-> atime, password |-> password]

HashMapInsert(m, k, v) == [x \in (DOMAIN m) \cup {k} |-> IF x = k THEN v ELSE m[x]]

HashMapRemove(m, k) == [x \in (DOMAIN m) \ {k} |-> m[x]]

NoPasswords == [x \in {} |-> ATimePassword(0, NoPassword)]

\* AgentState::set_password
AgentSetPassword(pws, uuid, password, t) ==
    HashMapInsert(pws, uuid, ATimePassword(t, password))

\* a clear that spares one entry
AgentDeletePasswordsKeepsOne(pws) ==
    IF DOMAIN pws = {}
    THEN pws
    ELSE LET kept == CHOOSE u \in DOMAIN pws : TRUE
         IN [u \in {kept} |-> pws[u]]

\* AgentState::delete_passwords
AgentDeletePasswords(pws) == NoPasswords

\* a lookup that returns whichever passphrase is cached, under any uuid
AgentGetPasswordAnyUuid(pws, uuid, t) ==
    IF DOMAIN pws = {}
    THEN [found |-> FALSE, password |-> NoPassword, passwords |-> pws]
    ELSE LET u == CHOOSE x \in DOMAIN pws : TRUE
         IN [found |-> TRUE, password |-> pws[u].password, passwords |-> pws]

\* a lookup that is seen between its remove and its insert
AgentGetPasswordRemoves(pws, uuid, t) ==
    IF uuid \notin DOMAIN pws
    THEN [found |-> FALSE, password |-> NoPassword, passwords |-> pws]
    ELSE [found |-> TRUE, password |-> pws[uuid].password,
          passwords |-> HashMapRemove(pws, uuid)]

\* a lookup that keeps the entry it found and drops every other one
AgentGetPasswordEvicts(pws, uuid, t) ==
    IF uuid \notin DOMAIN pws
    THEN [found |-> FALSE, password |-> NoPassword, passwords |-> pws]
    ELSE [found |-> TRUE, password |-> pws[uuid].password,
          passwords |-> HashMapInsert(NoPasswords, uuid,
                                      ATimePassword(t, pws[uuid].password))]

\* AgentState::get_password: what it returns and the map it leaves
AgentGetPassword(pws, uuid, t) ==
    IF uuid \notin DOMAIN pws
    THEN [found |-> FALSE, password |-> NoPassword, passwords |-> pws]
    ELSE [found |-> TRUE, password |-> pws[uuid].password,
          passwords |-> HashMapInsert(HashMapRemove(pws, uuid), uuid,
                                      ATimePassword(t, pws[uuid].password))]

\* a sweep that drops every entry
CleanExpiredPasswordsClears(pws, t) == [u \in {} |-> pws[u]]

\* AgentState::clean_expired_passwords
CleanExpiredPasswords(pws, t) ==
    LET lowest_barrier == t - TTL
    IN [u \in {x \in DOMAIN pws : pws[x].atime > lowest_barrier} |-> pws[u]]

NoLookup == [uuid |-> 0, found |-> FALSE, password |-> NoPassword, age |-> 0]

\* a behaviour ends when every client has its answer
Serving == \E c \in DOMAIN clients : clients[c].pc # "done"

\* PUT /passwords
PutPassword(uuid, password) ==
    /\ Serving
    /\ passwords' = AgentSetPassword(passwords, uuid, password, now)
    /\ UNCHANGED <<now, next_sweep, lookup>>
    /\ UNCHANGED <<shrineVars, agentVars, loadVars, serveVars>>

\* DELETE /passwords
DeletePasswords ==
    /\ Serving
    /\ passwords' = AgentDeletePasswords(passwords)
    /\ UNCHANGED <<now, next_sweep, lookup>>
    /\ UNCHANGED <<shrineVars, agentVars, loadVars, serveVars>>

\* a lookup of the passphrase of uuid, as open_shrine makes it
Lookup(uuid) ==
    /\ LET g == AgentGetPassword(passwords, uuid, now)
       IN /\ passwords' = g.passwords
          /\ lookup' = [uuid |-> uuid, found |-> g.found, password |-> g.password,
                        age |-> IF g.found THEN now - passwords[uuid].atime ELSE 0]
    /\ UNCHANGED <<now, next_sweep>>
    /\ UNCHANGED <<shrineVars, agentVars, loadVars, serveVars>>

\* the sweeper job, every SweepPeriod
Sweep ==
    /\ now = next_sweep
    /\ passwords' = CleanExpiredPasswords(passwords, now)
    /\ next_sweep' = now + SweepPeriod
    /\ UNCHANGED <<now, lookup>>
    /\ UNCHANGED <<shrineVars, agentVars, loadVars, serveVars>>

\* time passes; the sweeper is not late
Tick ==
    /\ now < next_sweep
    /\ now < MaxTime
    /\ now' = now + 1
    /\ UNCHANGED <<passwords, next_sweep, lookup>>
    /\ UNCHANGED <<shrineVars, agentVars, loadVars, serveVars>>

(***************************************************************************)
(* Agent server: the /keys handlers                                        *)
(***************************************************************************)
Paths == {"P"}

Clients == {"c1", "c2"}

\* the secrets the clients put
RequestSecrets == { SecretNew(<<2, 1>>, "Binary") }

NoShrine == [LocalShrineDefault(0) EXCEPT !.payload = ClosedPayload(<<>>)]

FileMissing == [kind |-> "Missing", shrine |-> NoShrine]

\* a file that exists and cannot be read
FileUnreadable == [kind |-> "Unreadable", shrine |-> NoShrine]

\* a file that is no shrine: empty, truncated, wrong magic number
FileGarbage == [kind |-> "Garbage", shrine |-> NoShrine]

FileOf(closed) == [kind |-> "Shrine", shrine |-> closed]

\* ShrinePassword::from("")
EmptyPassword == ""

\* Shrine::from_path, after LoadedShrine::try_from_path
ShrineFromPath(file) ==
    CASE file.kind = "Missing"    -> Err([kind |-> "FileNotFound", key |-> <<>>])
      [] file.kind = "Unreadable" -> Err([kind |-> "IoRead", key |-> <<>>])
      [] file.kind = "Garbage"    -> Err([kind |-> "Read", key |-> <<>>])
      [] OTHER                    -> Ok(file.shrine)

\* Shrine::requires_password
RequiresPassword(s) == s.metadata.encryption_algorithm = "Aes"

\* Shrine::open(&password)
ShrineOpen(s, password) ==
    IF s.metadata.encryption_algorithm = "Aes"
    THEN AesOpen(s, password)
    ELSE ClearOpen(s)

\* Shrine::close(&password)
ShrineClose(s, password, nonce) ==
    IF s.metadata.encryption_algorithm = "Aes"
    THEN AesClose(SetPassword(s, password), nonce)
    ELSE ClearClose(s)

Response(kind, uuid, secrets) == [kind |-> kind, uuid |-> uuid, secrets |-> secrets]

NoResponse == Response("None", 0, {})

\* open_shrine: the answer, or the open shrine and its passphrase; the cache
\* as the lookup leaves it
OpenShrine(pws, file, t) ==
    LET loaded == ShrineFromPath(file)
    IN IF ~loaded.ok
       THEN [ok |-> FALSE, shrine |-> NoShrine, password |-> EmptyPassword,
             passwords |-> pws,
             resp |-> CASE loaded.err.kind = "FileNotFound" -> Response("FileNotFound", 0, {})
                        [] loaded.err.kind = "IoRead"       -> Response("Read", 0, {})
                        [] OTHER                            -> Response("Io", 0, {})]
       ELSE LET uuid == loaded.val.metadata.uuid
                got  == IF RequiresPassword(loaded.val)
                        THEN AgentGetPassword(pws, uuid, t)
                        ELSE [found |-> TRUE, password |-> EmptyPassword, passwords |-> pws]
            IN IF ~got.found
               THEN [ok |-> FALSE, shrine |-> NoShrine, password |-> EmptyPassword,
                     passwords |-> got.passwords,
                     resp |-> Response("Unauthorized", uuid, {})]
               ELSE LET opened == ShrineOpen(loaded.val, got.password)
                    IN IF ~opened.ok
                       THEN [ok |-> FALSE, shrine |-> NoShrine, password |-> EmptyPassword,
                             passwords |-> got.passwords,
                             resp |-> Response("Forbidden", uuid, {})]
                       ELSE [ok |-> TRUE, shrine |-> opened.val,
                             password |-> got.password,
                             passwords |-> got.passwords, resp |-> NoResponse]

\* the passphrases cached under the uuid of the shrine in file: none or one
Cached(pws, file) ==
    IF file.kind = "Shrine" /\ file.shrine.metadata.uuid \in DOMAIN pws
    THEN {pws[file.shrine.metadata.uuid].password}
    ELSE {}

Idle ==
    [ pc |-> "idle", op |-> "none", path |-> "P", key |-> NoKey, secret |-> {},
      shrine |-> NoShrine, password |-> EmptyPassword,
      seen_file |-> FileMissing, seen_entry |-> {},
      open_resp |-> NoResponse, resp |-> NoResponse, wrote |-> FALSE ]

\* GET /keys/:file/:key
GetKey(c, path, key) ==
    /\ clients[c].pc = "idle"
    /\ LET o == OpenShrine(passwords, files[path], now)
           g == IF o.ok THEN LocalGet(o.shrine, key) ELSE Err(KeyNotFound(key))
       IN /\ passwords' = o.passwords
          /\ clients' = [clients EXCEPT ![c] =
                 [ Idle EXCEPT !.pc = "done", !.op = "get", !.path = path, !.key = key,
                     !.seen_file = files[path], !.seen_entry = Cached(passwords, files[path]),
                     !.open_resp = o.resp,
                     !.resp = IF ~o.ok THEN o.resp
                              ELSE IF ~g.ok THEN Response("KeyNotFound", 0, {})
                              ELSE Response("Secret", 0, {g.val}) ]]
    /\ UNCHANGED <<files, corrupted, now, next_sweep, lookup>>
    /\ UNCHANGED <<shrineVars, loadVars, serveVars>>

\* PUT /keys/:file/:key, up to the return of open_shrine
SetKeyOpen(c, path, key, secret) ==
    /\ clients[c].pc = "idle"
    /\ LET o == OpenShrine(passwords, files[path], now)
       IN /\ passwords' = o.passwords
          /\ clients' = [clients EXCEPT ![c] =
                 [ Idle EXCEPT !.pc = IF o.ok THEN "opened" ELSE "done",
                     !.op = "put", !.path = path, !.key = key, !.secret = {secret},
                     !.shrine = o.shrine, !.password = o.password,
                     !.seen_file = files[path], !.seen_entry = Cached(passwords, files[path]),
                     !.open_resp = o.resp, !.resp = o.resp ]]
    /\ UNCHANGED <<files, corrupted, now, next_sweep, lookup>>
    /\ UNCHANGED <<shrineVars, loadVars, serveVars>>

WriteOutcomes == {"written", "not created", "truncated"}

GitOutcomes == {"no repository", "committed", "commit failed"}

\* LocalShrine<Closed, T>::write_file: File::create on the path itself, which
\* empties the file that is there, then write_all
WriteFile(file, closed, outcome) ==
    CASE outcome = "written"     -> [ok |-> TRUE, file |-> FileOf(closed)]
      [] outcome = "not created" -> [ok |-> FALSE, file |-> file]
      [] OTHER                   -> [ok |-> FALSE, file |-> FileGarbage]

\* Shrine::to_path
ToPath(file, closed, outcome) == WriteFile(file, closed, outcome)

\* PUT /keys/:file/:key, from shrine.set to the answer
SetKeyWrite(c, nonce, outcome, git) ==
    /\ clients[c].pc = "opened"
    /\ LET r       == clients[c]
           secret  == CHOOSE x \in r.secret : TRUE
           set     == LocalSet(r.shrine, r.key, secret.value, secret.mode)
           closed  == ShrineClose(set.val, r.password, nonce)
           written == ToPath(files[r.path], closed.val, outcome)
       IN IF ~set.ok
          THEN /\ clients' = [clients EXCEPT ![c].pc = "done",
                     ![c].resp = IF set.err.kind = "KeyNotFound"
                                 THEN Response("KeyNotFound", 0, {})
                                 ELSE Response("Write", 0, {})]
               /\ UNCHANGED files
          ELSE /\ files' = [files EXCEPT ![r.path] = written.file]
               /\ clients' = [clients EXCEPT ![c].pc = "done",
                     ![c].wrote = (written.file # files[r.path]),
                     ![c].resp = IF ~written.ok \/ git = "commit failed"
                                 THEN Response("Write", 0, {})
                                 ELSE Response("NoContent", 0, {})]
    /\ UNCHANGED <<corrupted, passwords, now, next_sweep, lookup>>
    /\ UNCHANGED <<shrineVars, loadVars, serveVars>>

\* somebody flips bit j of the last byte of the payload of a file
Corrupt(path, j) ==
    /\ ~corrupted
    /\ \A c \in Clients : clients[c].pc = "idle"
    /\ files[path].kind = "Shrine"
    /\ LET i == Len(files[path].shrine.payload.bytes)
       IN files' = [files EXCEPT ![path].shrine.payload.bytes[i] = FlipBit(@, j)]
    /\ corrupted' = TRUE
    /\ UNCHANGED <<clients, passwords, now, next_sweep, lookup>>
    /\ UNCHANGED <<shrineVars, loadVars, serveVars>>

\* the holders of the shrine files found when the agent starts
StoredHolders == { [pub |-> MapPut(EmptyMap, <<"a">>, SecretNew(<<1>>, "Text")),
                    priv |-> EmptyMap] }

\* the uuids of these files
StoredUuids == {1}

\* the nonces the agent draws
AgentNonces == {3}

\* the files a client or init can have left at a path
StoredFiles ==
    {FileMissing, FileUnreadable, FileGarbage}
    \cup { FileOf(ClearClose(WithSecrets(IntoClear(LocalShrineDefault(u)), h)).val) :
             u \in StoredUuids, h \in StoredHolders }
    \cup { FileOf(AesNoPasswordClose(WithSecrets(LocalShrineDefault(u), h), "p", 0).val) :
             u \in StoredUuids, h \in StoredHolders }

(***************************************************************************)
(* Agent lifecycle: serve, from the start of the process to its exit.      *)
(* The pid file is written by the launcher before serve is called.         *)
(***************************************************************************)
AgentIds == {"first", "second"}

\* an agent accepts at most this many requests
MaxRequests == 2

\* DELETE / and the two signals of shutdown()
ShutdownSources == {"DELETE /", "SIGINT", "SIGTERM"}

NotStarted ==
    [ pc |-> "off", scheduler |-> FALSE, bound |-> FALSE, accepted |-> 0,
      inflight |-> 0, completed |-> 0, source |-> None ]

InitServe ==
    /\ agents = [a \in AgentIds |-> NotStarted]
    /\ disk = [pid |-> None, socket |-> None]

\* the process of agent a exists
Running(a) == agents[a].pc \notin {"off", "exited", "panicked"}

\* the start of the agent process: the pid file is created, unless the pid
\* file of a running agent is there
Launch(a) ==
    /\ agents[a].pc = "off"
    /\ agents' = [agents EXCEPT ![a].pc = "launched"]
    /\ disk' = IF disk.pid = None \/ ~Running(disk.pid)
               THEN [disk EXCEPT !.pid = a]
               ELSE disk
    /\ UNCHANGED <<shrineVars, cacheVars, agentVars, loadVars>>

\* JobScheduler::new, add of the sweeper job, start
SchedulerStart(a) ==
    /\ agents[a].pc = "launched"
    /\ agents' = [agents EXCEPT ![a].pc = "scheduled", ![a].scheduler = TRUE]
    /\ UNCHANGED disk
    /\ UNCHANGED <<shrineVars, cacheVars, agentVars, loadVars>>

\* a bind that unlinks the socket file it finds and takes its place
BindUnixReplaces(d, a) == [ok |-> TRUE, disk |-> [d EXCEPT !.socket = a]]

\* Server::bind_unix(&socketfile): fails when the socket file exists
BindUnix(d, a) ==
    IF d.socket = None
    THEN [ok |-> TRUE, disk |-> [d EXCEPT !.socket = a]]
    ELSE [ok |-> FALSE, disk |-> d]

\* serve: if let Ok(x) = Server::bind_unix(..), else error!("Could not open socket.")
Bind(a) ==
    /\ agents[a].pc = "scheduled"
    /\ LET b == BindUnix(disk, a)
       IN /\ disk' = b.disk
          /\ agents' = [agents EXCEPT ![a].pc = IF b.ok THEN "serving" ELSE "refused",
                                      ![a].bound = b.ok]
    /\ UNCHANGED <<shrineVars, cacheVars, agentVars, loadVars>>

\* the server accepts a connection and its request
Accept(a) ==
    /\ agents[a].pc = "serving"
    /\ agents[a].accepted < MaxRequests
    /\ agents' = [agents EXCEPT ![a].accepted = @ + 1, ![a].inflight = @ + 1]
    /\ UNCHANGED disk
    /\ UNCHANGED <<shrineVars, cacheVars, agentVars, loadVars>>

\* a handler returns its response
Complete(a) ==
    /\ agents[a].pc \in {"serving", "draining"}
    /\ agents[a].inflight > 0
    /\ agents' = [agents EXCEPT ![a].inflight = @ - 1, ![a].completed = @ + 1]
    /\ UNCHANGED disk
    /\ UNCHANGED <<shrineVars, cacheVars, agentVars, loadVars>>

\* shutdown(): the select over ctrl_c, terminate and the channel that
\* delete_agent sends on, the handler of a request in flight
Shutdown(a, source) ==
    /\ agents[a].pc = "serving"
    /\ source = "DELETE /" => agents[a].inflight > 0
    /\ agents' = [agents EXCEPT ![a].pc = "draining", ![a].source = source]
    /\ UNCHANGED disk
    /\ UNCHANGED <<shrineVars, cacheVars, agentVars, loadVars>>

\* with_graceful_shutdown: the server future returns when no request is in flight
ServeReturns(a) ==
    /\ agents[a].pc = "draining"
    /\ agents[a].inflight = 0
    /\ agents' = [agents EXCEPT ![a].pc = "returned"]
    /\ UNCHANGED disk
    /\ UNCHANGED <<shrineVars, cacheVars, agentVars, loadVars>>

\* a remove_file that reports success and leaves the file
RemoveFileKeeps(d, name) == [ok |-> TRUE, disk |-> d]

\* std::fs::remove_file
RemoveFile(d, name) ==
    IF d[name] = None
    THEN [ok |-> FALSE, disk |-> d]
    ELSE [ok |-> TRUE, disk |-> [d EXCEPT ![name] = None]]

\* remove_file(..).unwrap(): the process panics on an error
Unlink(a, from, name, to) ==
    /\ agents[a].pc = from
    /\ LET r == RemoveFile(disk, name)
       IN /\ disk' = r.disk
          /\ agents' = IF r.ok
                       THEN [agents EXCEPT ![a].pc = to]
                       ELSE [agents EXCEPT ![a].pc = "panicked", ![a].scheduler = FALSE]
    /\ UNCHANGED <<shrineVars, cacheVars, agentVars, loadVars>>

\* remove_file(pidfile).unwrap()
RemovePidFile(a) == Unlink(a, "returned", "pid", "pid removed")

\* remove_file(socketfile).unwrap()
RemoveSocketFile(a) == Unlink(a, "pid removed", "socket", "socket removed")

\* scheduler.shutdown(), after the removal of the files or after the bind failed
SchedulerShutdown(a) ==
    /\ agents[a].pc \in {"socket removed", "refused"}
    /\ agents' = [agents EXCEPT ![a].pc = "exited", ![a].scheduler = FALSE]
    /\ UNCHANGED disk
    /\ UNCHANGED <<shrineVars, cacheVars, agentVars, loadVars>>

\* what the runtime does once a shutdown source was received
Drain(a) ==
    \/ Complete(a)
    \/ ServeReturns(a)
    \/ RemovePidFile(a)
    \/ RemoveSocketFile(a)
    \/ SchedulerShutdown(a)

NextServe ==
    \/ \E a \in AgentIds : Launch(a)
    \/ \E a \in AgentIds : SchedulerStart(a)
    \/ \E a \in AgentIds : Bind(a)
    \/ \E a \in AgentIds : Accept(a)
    \/ \E a \in AgentIds, source \in ShutdownSources : Shutdown(a, source)
    \/ \E a \in AgentIds : Drain(a)

(***************************************************************************)
(* Controller: init                                                        *)
(***************************************************************************)
\* Error::FileAlreadyExists(path)
FileAlreadyExists(path) == [kind |-> "FileAlreadyExists", key |-> <<path>>]

\* path.as_ref().exists()
Exists(file) == file.kind # "Missing"

\* init from LocalShrine::default() on: the passphrase is asked for with the
\* uuid unless Plain was chosen, the shrine is closed and its file written
InitWrite(file, path, encryption, password, uuid, nonce, outcome, git) ==
    LET new     == LocalShrineDefault(uuid)
        plain   == encryption = "Plain"
        open    == IF plain THEN IntoClear(new) ELSE SetPassword(new, password)
        asked   == IF plain THEN <<>> ELSE <<uuid>>
        closed  == IF plain THEN ClearClose(open) ELSE AesClose(open, nonce)
        written == WriteFile(file, closed.val, outcome)
    IN IF ~closed.ok
       THEN [result |-> Err(closed.err), file |-> file, asked |-> asked]
       ELSE IF ~written.ok
       THEN [result |-> Err(Error("IoWrite")), file |-> written.file, asked |-> asked]
       ELSE IF git = "commit failed"
       THEN [result |-> Err(Error("Git")), file |-> written.file, asked |-> asked]
       ELSE [result |-> Ok(uuid), file |-> written.file, asked |-> asked]

\* an init that does not look at the path
initForced(file, path, force, encryption, password, uuid, nonce, outcome, git) ==
    InitWrite(file, path, encryption, password, uuid, nonce, outcome, git)

\* controller::init
init(file, path, force, encryption, password, uuid, nonce, outcome, git) ==
    IF ~force /\ Exists(file)
    THEN [result |-> Err(FileAlreadyExists(path)), file |-> file, asked |-> <<>>]
    ELSE InitWrite(file, path, encryption, password, uuid, nonce, outcome, git)

\* the uuid of the shrine in a file, if it is one
UuidsOf(file) == IF file.kind = "Shrine" THEN {file.shrine.metadata.uuid} ELSE {}

\* shrine init [--force] [--encryption ..] [--git]
DoInit(path, force, encryption, password, uuid, nonce, outcome, git) ==
    /\ uuid \in NewV4(UuidsOf(files[path]))
    /\ LET r == init(files[path], path, force, encryption, password, uuid, nonce, outcome, git)
       IN /\ files' = [files EXCEPT ![path] = r.file]
          /\ last' = Did("init", NoKey, password, r.result.ok, ErrKind(r.result), {}, {},
                         LocalShrineDefault(uuid))
                         @@ [ path |-> path, force |-> force, encryption |-> encryption,
                              before |-> files[path], result |-> r.result,
                              asked |-> r.asked ]
    /\ UNCHANGED <<shrine, sealed, tampered, clients, corrupted>>
    /\ UNCHANGED <<cacheVars, loadVars, serveVars>>

(***************************************************************************)
(* Client process: shrine::new, then ClosedShrine::open with the password  *)
(* provider of the command                                                 *)
(***************************************************************************)
\* impl From<LoadedShrine> for ClosedShrine<PathBuf>
FromLoaded(s) ==
    [variant |-> IF s.encryption = Clear THEN "LocalClear" ELSE "LocalAes", shrine |-> s]

\* LoadedShrine::try_from_path: the file is read whole and handed to
\* try_from_bytes; a file that is no shrine is taken to be empty
TryFromPath(file) ==
    CASE file.kind = "Missing"    -> Err(Error("FileNotFound"))
      [] file.kind = "Unreadable" -> Err(Error("IoRead"))
      [] file.kind = "Garbage"    -> TryFromBytes(<<>>)
      [] OTHER                    -> TryFromBytes(TryToBytes(file.shrine))

\* shrine::new(client, path); running is what client.is_running() answers
ShrineNew(running, file, path) ==
    IF running THEN Ok(RemoteShrine(path))
    ELSE LET loaded == TryFromPath(file)
         IN IF loaded.ok THEN Ok(FromLoaded(loaded.val)) ELSE loaded

\* the password providers: FnOnce(Uuid) -> ShrinePassword
PasswordProviders == [Uuids -> PassphraseSet]

\* an open that asks for the passphrase before it looks at the variant
ClosedShrineOpenAsksFirst(closed, password_provider) ==
    LET uuid == IF closed.variant = "Remote" THEN 0 ELSE closed.shrine.metadata.uuid
    IN CASE closed.variant = "LocalClear" ->
              LET o == ClearOpen(closed.shrine)
              IN [result |-> IF o.ok THEN Ok(LocalOpenShrine(o.val)) ELSE o,
                  asked |-> <<uuid>>]
         [] closed.variant = "LocalAes" ->
              LET o == AesOpen(closed.shrine, password_provider[uuid])
              IN [result |-> IF o.ok THEN Ok(LocalOpenShrine(o.val)) ELSE o,
                  asked |-> <<uuid>>]
         [] OTHER -> [result |-> Ok(closed), asked |-> <<uuid>>]

\* ClosedShrine::open(password_provider): the result and the uuids the
\* provider was called with, in order
ClosedShrineOpen(closed, password_provider) ==
    CASE closed.variant = "LocalClear" ->
           LET o == ClearOpen(closed.shrine)
           IN [result |-> IF o.ok THEN Ok(LocalOpenShrine(o.val)) ELSE o,
               asked |-> <<>>]
      [] closed.variant = "LocalAes" ->
           LET uuid == closed.shrine.metadata.uuid
               o    == AesOpen(closed.shrine, password_provider[uuid])
           IN [result |-> IF o.ok THEN Ok(LocalOpenShrine(o.val)) ELSE o,
               asked |-> <<uuid>>]
      [] OTHER -> [result |-> Ok(closed), asked |-> <<>>]

\* a client process that has not called shrine::new
NoHandle == [pc |-> "none", running |-> FALSE, path |-> "", file |-> FileMissing,
             closed |-> Err(Error("None")), opened |-> Err(Error("None")),
             asked |-> <<>>]

\* shrine::new(client, path)
New(path, running) ==
    /\ handle.pc = "none"
    /\ LET r == ShrineNew(running, files[path], path)
       IN handle' = [NoHandle EXCEPT !.pc = IF r.ok THEN "closed" ELSE "failed",
                                     !.running = running, !.path = path,
                                     !.file = files[path], !.closed = r]
    /\ UNCHANGED <<buffer, read>>
    /\ UNCHANGED <<shrineVars, cacheVars, agentVars, serveVars>>

\* ClosedShrine::open(password_provider) on the shrine that shrine::new returned
OpenHandle(password_provider) ==
    /\ handle.pc = "closed"
    /\ LET o == ClosedShrineOpen(handle.closed.val, password_provider)
       IN handle' = [handle EXCEPT !.pc = IF o.result.ok THEN "open" ELSE "failed",
                                   !.opened = o.result, !.asked = o.asked]
    /\ UNCHANGED <<buffer, read>>
    /\ UNCHANGED <<shrineVars, cacheVars, agentVars, serveVars>>

\* the client process ends
Exit ==
    /\ handle.pc \in {"open", "failed"}
    /\ handle' = NoHandle
    /\ UNCHANGED <<buffer, read>>
    /\ UNCHANGED <<shrineVars, cacheVars, agentVars, serveVars>>

InitCache ==
    /\ passwords = NoPasswords
    /\ now = 0
    /\ next_sweep = SweepPeriod
    /\ lookup = NoLookup

InitAgent(stored) ==
    /\ files \in [Paths -> stored]
    /\ clients = [c \in Clients |-> Idle]
    /\ corrupted = FALSE

NotLoaded == [set |-> FALSE, bytes |-> <<>>, result |-> Err(Error("None"))]

InitLoad ==
    /\ buffer = <<>>
    /\ read = NotLoaded
    /\ handle = NoHandle
    /\ InitServe

Init == InitShrine(Uuids) /\ InitCache /\ InitAgent({FileMissing}) /\ InitLoad

Spec == Init /\ [][Next]_vars

\* two agents started on the same pid file and socket file
SpecServe == Init /\ [][NextServe]_vars

\* the runtime runs the tasks that are ready: a handler in flight, the server
\* future, the rest of serve
SpecServeLive == SpecServe /\ \A a \in AgentIds : WF_vars(Drain(a))

\* the cache, its lookups and the sweeper, as time passes
NextCache ==
    \/ \E uuid \in Uuids, password \in PassphraseSet : PutPassword(uuid, password)
    \/ DeletePasswords
    \/ \E uuid \in Uuids : Lookup(uuid)
    \/ Sweep
    \/ Tick

SpecCache == Init /\ [][NextCache]_vars

\* the /keys and /passwords handlers of the agent, on two clients
NextAgent ==
    \/ \E uuid \in Uuids, password \in PassphraseSet : PutPassword(uuid, password)
    \/ DeletePasswords
    \/ \E c \in Clients, path \in Paths, key \in LookupKeys : GetKey(c, path, key)
    \/ \E c \in Clients, path \in Paths, key \in LookupKeys, secret \in RequestSecrets :
           SetKeyOpen(c, path, key, secret)
    \/ \E c \in Clients, nonce \in AgentNonces, outcome \in WriteOutcomes, git \in GitOutcomes :
           SetKeyWrite(c, nonce, outcome, git)
    \/ \E path \in Paths, j \in BitsOfByte : Corrupt(path, j)

InitAgentSpec == InitShrine({1}) /\ InitCache /\ InitAgent(StoredFiles) /\ InitLoad

SpecAgent == InitAgentSpec /\ [][NextAgent]_vars

\* the agent one time step after a PUT /passwords for the stored shrine, or
\* after none
InitAgentLater ==
    /\ InitShrine({1})
    /\ \E cached \in {NoPasswords} \cup
                     { AgentSetPassword(NoPasswords, uuid, password, 0) :
                         uuid \in StoredUuids, password \in PassphraseSet } :
           passwords = cached
    /\ now = 1
    /\ next_sweep = SweepPeriod
    /\ lookup = NoLookup
    /\ InitAgent(StoredFiles)
    /\ InitLoad

SpecAgentLater == InitAgentLater /\ [][NextAgent]_vars

\* the paths of the shrine files that get moved
MovePaths == {"P", "Q"}

\* the shrine files of the two identities, each closed with its own passphrase
IdentityFiles ==
    { FileOf(AesNoPasswordClose(WithSecrets(LocalShrineDefault(u), h),
                                IF u = 1 THEN "p" ELSE "q", 0).val) :
        u \in Uuids, h \in StoredHolders }

\* somebody renames the files: the file at p and the file at q change places
Move(p, q) ==
    /\ p # q
    /\ files[p] # files[q]
    /\ files' = [files EXCEPT ![p] = files[q], ![q] = files[p]]
    /\ UNCHANGED <<clients, corrupted, passwords, now, next_sweep, lookup>>
    /\ UNCHANGED <<shrineVars, loadVars, serveVars>>

\* GET /keys on files that move between paths, with the /passwords handlers
NextIdentity ==
    \/ \E uuid \in Uuids, password \in PassphraseSet : PutPassword(uuid, password)
    \/ DeletePasswords
    \/ \E c \in Clients, path \in MovePaths, key \in LookupKeys : GetKey(c, path, key)
    \/ \E p, q \in MovePaths : Move(p, q)

InitIdentity ==
    /\ InitShrine({1})
    /\ InitCache
    /\ files \in [MovePaths -> IdentityFiles \cup {FileMissing}]
    /\ clients = [c \in Clients |-> Idle]
    /\ corrupted = FALSE
    /\ InitLoad

SpecIdentity == InitIdentity /\ [][NextIdentity]_vars

NextInit ==
    \E path \in Paths, force \in BOOLEAN, encryption \in EncryptionOptions,
       password \in PassphraseSet, uuid \in Uuids, nonce \in AgentNonces,
       outcome \in WriteOutcomes, git \in GitOutcomes :
        DoInit(path, force, encryption, password, uuid, nonce, outcome, git)

\* init on a path that is empty or holds a file
InitInitSpec ==
    /\ InitShrine({1})
    /\ InitCache
    /\ files \in [Paths -> StoredFiles]
    /\ clients = [c \in Clients |-> Idle]
    /\ corrupted = FALSE
    /\ InitLoad

SpecInit == InitInitSpec /\ [][NextInit]_vars

\* init, and client processes that get the shrine at the path and open it
NextClient ==
    \/ NextInit
    \/ \E path \in Paths, running \in BOOLEAN : New(path, running)
    \/ \E password_provider \in PasswordProviders : OpenHandle(password_provider)
    \/ Exit

SpecClient == InitInitSpec /\ [][NextClient]_vars

(***************************************************************************)
(* File codec: a closed shrine is written to bytes, the bytes are edited   *)
(* and loaded                                                              *)
(***************************************************************************)
\* the holder of the shrines that get written
WrittenHolders ==
    { [pub  |-> MapPut(EmptyMap, <<"a">>, SecretNew(<<1>>, "Text")),
       priv |-> MapPut(EmptyMap, <<"a">>, SecretNew(<<2, 1>>, "Binary"))] }

\* the magic number and the version byte
HeadLen == Len(MagicBytes) + 1

Prefix(bytes) == SubSeq(bytes, 1, IF Len(bytes) < HeadLen THEN Len(bytes) ELSE HeadLen)

Suffix(bytes) == SubSeq(bytes, HeadLen + 1, Len(bytes))

\* try_to_bytes / write_file of the closed shrine
WriteBytes ==
    /\ IsClosed(shrine)
    /\ buffer = <<>>
    /\ ~read.set
    /\ buffer' = TryToBytes(shrine)
    /\ UNCHANGED <<read, handle>>
    /\ UNCHANGED <<shrineVars, cacheVars, agentVars, serveVars>>

\* somebody flips bit j of byte i of the file: one byte of the magic number and
\* version, one byte of what follows
AlterByte(i, j) ==
    /\ buffer # <<>>
    /\ ~read.set
    /\ i \in 1..Len(buffer)
    /\ IF i <= HeadLen
       THEN Prefix(buffer) = Prefix(TryToBytes(shrine))
       ELSE Suffix(buffer) = Suffix(TryToBytes(shrine))
    /\ buffer' = [buffer EXCEPT ![i] = FlipBit(@, j)]
    /\ UNCHANGED <<read, handle>>
    /\ UNCHANGED <<shrineVars, cacheVars, agentVars, serveVars>>

\* the file is cut after n bytes
Truncate(n) ==
    /\ buffer # <<>>
    /\ ~read.set
    /\ n < Len(buffer)
    /\ Suffix(buffer) = Suffix(TryToBytes(shrine))
    /\ buffer' = SubSeq(buffer, 1, n)
    /\ UNCHANGED <<read, handle>>
    /\ UNCHANGED <<shrineVars, cacheVars, agentVars, serveVars>>

\* LoadedShrine::try_from_bytes / try_from_path
Load ==
    /\ buffer # <<>>
    /\ ~read.set
    /\ read' = [set |-> TRUE, bytes |-> buffer, result |-> TryFromBytes(buffer)]
    /\ UNCHANGED <<buffer, handle>>
    /\ UNCHANGED <<shrineVars, cacheVars, agentVars, serveVars>>

\* the longest file: header, two secrets, nonce and tag
MaxFileLen == HeaderLen + 4 * (MaxSecrets + 2)

NextLoad ==
    \/ WriteBytes
    \/ \E i \in 1..MaxFileLen, j \in BitsOfByte : AlterByte(i, j)
    \/ \E n \in 0..MaxFileLen : Truncate(n)
    \/ Load

\* a closed shrine, Clear or AES, as close returns it
InitLoadSpec ==
    /\ \E uuid \in Uuids, h \in WrittenHolders, aes \in BOOLEAN :
           LET open   == WithSecrets(IF aes THEN SetPassword(LocalShrineDefault(uuid), "p")
                                            ELSE IntoClear(LocalShrineDefault(uuid)), h)
               closed == IF aes THEN AesClose(open, 3) ELSE ClearClose(open)
           IN /\ shrine = closed.val
              /\ sealed = Sealed(open, closed.val.payload.bytes)
              /\ last = Did("close", NoKey, open.encryption.password, TRUE, None, {}, {}, open)
    /\ tampered = FALSE
    /\ InitCache
    /\ InitAgent({FileMissing})
    /\ InitLoad

SpecLoad == InitLoadSpec /\ [][NextLoad]_vars

(***************************************************************************)
(* The life of one shrine: every operation on it, its file written and     *)
(* loaded back, no byte altered                                            *)
(***************************************************************************)
DoWithSerializationFormat(format) ==
    /\ QueryOpenImpl(shrine)
    /\ Convert("with_serialization_format", WithSerializationFormat(shrine, format))

\* write_file, then LoadedShrine::try_from_path: the caller goes on with the
\* shrine it loaded
WriteLoad ==
    /\ Usable
    /\ IsClosed(shrine)
    /\ LET r == TryFromBytes(TryToBytes(shrine))
       IN /\ shrine' = IF r.ok THEN r.val ELSE shrine
          /\ last' = Did("load", NoKey, NoPassword, r.ok, ErrKind(r), {}, {}, shrine)
    /\ UNCHANGED <<sealed, tampered>>
    /\ UNCHANGED <<cacheVars, agentVars, loadVars, serveVars>>

NextLife ==
    \/ \E key \in LookupKeys, value \in SecretValues, mode \in Modes : Set(key, value, mode)
    \/ \E key \in LookupKeys : Get(key)
    \/ \E key \in LookupKeys : Rm(key)
    \/ \E src \in MvSources : Mv(src)
    \/ \E uuid \in Uuids, encryption \in EncryptionOptions, new_password \in PasswordOptions :
           DoConvert(uuid, encryption, new_password)
    \/ Keys
    \/ KeysPrivate
    \/ DoIntoClear
    \/ \E password \in PassphraseSet : DoSetPassword(password)
    \/ DoIntoAes
    \/ \E password \in PassphraseSet : DoIntoAesWithPassword(password)
    \/ \E format \in Formats : DoWithSerializationFormat(format)
    \/ \E password \in PassphraseSet, nonce \in Nonces : DoAesNoPasswordClose(password, nonce)
    \/ \E nonce \in Nonces : DoAesClose(nonce)
    \/ DoClearClose
    \/ WriteLoad
    \/ DoClearOpen
    \/ \E password \in PassphraseSet : DoAesOpen(password)

SpecLife == Init /\ [][NextLife]_vars

(***************************************************************************)
(* Properties of the shrine state machine                                  *)
(***************************************************************************)
AccessOps == {"set", "get", "rm", "keys", "keys_private"}

\* the last operation opened a shrine that the last close had sealed
OpenedSealed(kind) ==
    /\ last.op = "open"
    /\ last.variant.kind = kind
    /\ sealed.set

\* C1: closing an Open AES shrine holding H with passphrase p and opening the
\* result with the same p succeeds and yields an Open shrine whose public and
\* private namespaces equal H, key by key.
C1_AesCloseOpenRoundTrip ==
    (OpenedSealed("Aes") /\ ~tampered /\ last.password = sealed.password)
        => /\ last.ok
           /\ IsOpen(shrine)
           /\ shrine.payload.secrets = sealed.secrets
           /\ shrine.encryption = AesPassword(sealed.password)

C1_Witness ==
    /\ OpenedSealed("Aes") /\ ~tampered /\ last.password = sealed.password
    /\ last.ok
    /\ DOMAIN sealed.secrets.pub # {}
    /\ DOMAIN sealed.secrets.priv # {}

\* C2: closing an Open Clear shrine holding H and opening the closed form
\* succeeds and yields an Open Clear shrine whose holder equals H key by key in
\* both namespaces.
C2_ClearCloseOpenRoundTrip ==
    (OpenedSealed("Clear") /\ ~tampered)
        => /\ last.ok
           /\ IsOpen(shrine)
           /\ shrine.payload.secrets = sealed.secrets
           /\ shrine.encryption = Clear

C2_Witness ==
    /\ OpenedSealed("Clear") /\ ~tampered
    /\ last.ok
    /\ DOMAIN sealed.secrets.pub # {}
    /\ DOMAIN sealed.secrets.priv # {}

\* C3: opening with a passphrase q an AES shrine that was closed with p # q
\* returns Error::CryptoRead and yields no Open shrine.
C3_WrongPassphraseIsCryptoRead ==
    (OpenedSealed("Aes") /\ ~tampered /\ last.password # sealed.password)
        => /\ ~last.ok
           /\ last.err = CryptoRead.kind
           /\ IsClosed(shrine)
           /\ shrine.payload.secrets = HolderNew

C3_Witness ==
    /\ OpenedSealed("Aes") /\ ~tampered /\ last.password # sealed.password
    /\ ~last.ok
    /\ HolderSize(sealed.secrets) > 0

\* the closed shrine as the last close produced it
AsClosed == [shrine EXCEPT !.payload.bytes = sealed.closed]

\* C4: flipping any bit of the closed payload of an AES shrine makes open with
\* the correct passphrase fail with Error::CryptoRead, the error kind that
\* opening the unaltered payload with a wrong passphrase returns.
C4_TamperIsCryptoRead ==
    (OpenedSealed("Aes") /\ tampered /\ last.password = sealed.password)
        => /\ ~last.ok
           /\ last.err = CryptoRead.kind
           /\ IsClosed(shrine)
           /\ \A q \in PassphraseSet \ {sealed.password} :
                  ErrKind(AesOpen(AsClosed, q)) = last.err

C4_Witness ==
    /\ OpenedSealed("Aes") /\ tampered /\ last.password = sealed.password
    /\ ~last.ok
    /\ shrine.payload.bytes # sealed.closed
    /\ HolderSize(sealed.secrets) > 0

\* C5 as claimed: secret access (get, set, rm, keys, keys_private) happens only
\* on a shrine that is Open and either Clear or AES with a passphrase.
C5_AccessNeedsClearOrPassphrase ==
    last.op \in AccessOps
        => /\ last.access = "Open"
           /\ (last.variant = Clear \/ last.variant.password # NoPassword)

\* C5 as amended: secret access happens only on an Open shrine, whatever its
\* variant (Clear, AES with a passphrase, AES without one); the only operation
\* applied to a Closed shrine is open.
C5_AccessNeedsOpen ==
    /\ last.op \in AccessOps => last.access = "Open"
    /\ last.access = "Closed" => last.op = "open"

C5_Witness ==
    /\ last.op = "get"
    /\ last.ok
    /\ last.access = "Open"
    /\ last.variant = AesNoPassword

DotKey(key) == <<".">> \o key

\* C6: after set(k, v, m) with k not dotted, get(k) returns v with mode m, keys()
\* lists k, keys_private() does not, and get("." + k) is KeyNotFound; after
\* set("." + k, v, m), get("." + k) returns v with mode m, keys_private() lists
\* k, keys() does not, and get(k) is KeyNotFound.
C6_NamespaceRouting ==
    (last.op = "set" /\ last.ok)
        => IF HasPrefixDot(last.key)
           THEN LET k == StripPrefixDot(last.key)
                IN /\ LocalGet(shrine, last.key).ok
                   /\ {LocalGet(shrine, last.key).val} = last.found
                   /\ k \in LocalKeysPrivate(shrine)
                   /\ k \notin LocalKeys(shrine)
                   /\ ErrKind(LocalGet(shrine, k)) = "KeyNotFound"
           ELSE LET k == last.key
                IN /\ LocalGet(shrine, k).ok
                   /\ {LocalGet(shrine, k).val} = last.found
                   /\ k \in LocalKeys(shrine)
                   /\ k \notin LocalKeysPrivate(shrine)
                   /\ ErrKind(LocalGet(shrine, DotKey(k))) = "KeyNotFound"

\* C7: no key string is present in both the public and the private namespace
\* of the holder of an Open shrine.
C7_NamespacesDisjoint ==
    IsOpen(shrine) =>
        LocalKeys(shrine) \cap LocalKeysPrivate(shrine) = {}

(***************************************************************************)
(* Properties of the agent                                                 *)
(***************************************************************************)
\* C8: a lookup returns a cached passphrase only while it is fresh: an entry
\* whose last access (PUT /passwords or lookup) is older than the TTL is never
\* returned by a later lookup, the sweeper having removed it before.
C8_StaleNeverReturned ==
    lookup.found => lookup.age <= TTL

\* client c has its 204 for a PUT /keys
PutDone(c) ==
    /\ clients[c].pc = "done"
    /\ clients[c].op = "put"
    /\ clients[c].resp.kind = "NoContent"

\* the mutation that the request of r asks for, applied to the Open shrine s
Mutation(s, r) ==
    LET secret == CHOOSE x \in r.secret : TRUE
    IN LocalSet(s, r.key, secret.value, secret.mode).val

\* C9: two concurrent PUT /keys from two clients on the same shrine file
\* serialize: when both answer success, the file equals the result of applying
\* the two mutations one after the other in some order, so that two different
\* keys are both present afterwards.
C9_ConcurrentPutsSerialize ==
    \A c, d \in Clients :
        (c # d /\ PutDone(c) /\ PutDone(d) /\ clients[c].path = clients[d].path)
            => LET file == files[clients[c].path]
               IN /\ file.kind = "Shrine"
                  /\ \E x, y \in {c, d} :
                         /\ x # y
                         /\ LET o == ShrineOpen(file.shrine, clients[x].password)
                                both == Mutation(Mutation(clients[x].shrine, clients[x]),
                                                 clients[y])
                            IN /\ o.ok
                               /\ o.val.payload.secrets = both.payload.secrets

OpenErrors == {"FileNotFound", "Read", "Unauthorized", "Forbidden"}

\* C10: when the agent opens a shrine for GET or PUT /keys it answers
\* file-not-found exactly when the file does not exist, a read error when
\* reading the file fails, Unauthorized(uuid) exactly when the file is AES and
\* no passphrase is cached under its uuid, Forbidden(uuid) exactly when a
\* passphrase is cached under its uuid and opening with it fails; in none of
\* these cases is a secret returned or the file written.
C10_OpenShrineAnswers ==
    \A c \in Clients :
        clients[c].pc # "idle" =>
            LET r      == clients[c]
                file   == r.seen_file
                answer == r.open_resp
                uuid   == file.shrine.metadata.uuid
            IN /\ answer.kind = "FileNotFound" <=> file.kind = "Missing"
               /\ file.kind = "Unreadable" => answer.kind = "Read"
               /\ answer = Response("Unauthorized", uuid, {})
                      <=> /\ file.kind = "Shrine"
                          /\ RequiresPassword(file.shrine)
                          /\ r.seen_entry = {}
               /\ answer = Response("Forbidden", uuid, {})
                      <=> /\ file.kind = "Shrine"
                          /\ \E password \in r.seen_entry :
                                 ~ShrineOpen(file.shrine, password).ok
               /\ answer.kind \in OpenErrors
                      => /\ r.resp = answer
                         /\ r.resp.secrets = {}
                         /\ ~r.wrote

\* client c gets the answer of open_shrine in this step
Opens(c) == clients[c].pc = "idle" /\ clients'[c].pc # "idle"

\* C11: the cache is keyed by shrine uuid and never by path: the answer for an
\* AES file with uuid U depends on the entry cached under U alone. With no
\* entry under U it is Unauthorized(U), whatever is cached under other uuids
\* and whatever was served at that path before; with an entry under U the file
\* is opened with that passphrase, whatever its path.
C11_CacheKeyedByUuid ==
    [][\A c \in Clients :
          Opens(c) =>
              LET file   == files[clients'[c].path]
                  uuid   == file.shrine.metadata.uuid
                  answer == clients'[c].open_resp
              IN (file.kind = "Shrine" /\ RequiresPassword(file.shrine)) =>
                     IF uuid \notin DOMAIN passwords
                     THEN answer = Response("Unauthorized", uuid, {})
                     ELSE LET o == ShrineOpen(file.shrine, passwords[uuid].password)
                          IN IF o.ok
                             THEN /\ answer = NoResponse
                                  /\ clients'[c].resp.kind \in {"Secret", "KeyNotFound"}
                             ELSE answer = Response("Forbidden", uuid, {})]_vars

\* one client was served the secret of the file with uuid 1; the other one asks
\* at the same path, where the file with uuid 2 now sits, and is told
\* Unauthorized(2) while the passphrase of uuid 1 is still cached
C11_Witness ==
    \E c, d \in Clients :
        /\ clients[c].resp.kind = "Secret"
        /\ clients[c].seen_file.shrine.metadata.uuid = 1
        /\ clients[d].path = clients[c].path
        /\ clients[d].seen_file.shrine.metadata.uuid = 2
        /\ clients[d].open_resp = Response("Unauthorized", 2, {})
        /\ DOMAIN passwords = {1}
        /\ files[clients[d].path] = clients[d].seen_file

\* client c persists its shrine in this step
Persists(c) == clients[c].pc = "opened" /\ clients'[c].pc = "done"

\* C12: persisting a closed shrine to a path either succeeds or leaves the file
\* previously at that path with its previous complete content: after the step
\* the path holds the old file or a complete shrine file, never a truncated or
\* partially written one.
C12_WriteIsAtomic ==
    [][\A c \in Clients :
          Persists(c) =>
              LET path == clients[c].path
              IN \/ files'[path] = files[path]
                 \/ ShrineFromPath(files'[path]).ok]_vars

(***************************************************************************)
(* Properties of the file codec                                            *)
(***************************************************************************)
\* the first 6 bytes, or all of them when there are fewer
MagicOf(bytes) == SubSeq(bytes, 1, IF Len(bytes) < 6 THEN Len(bytes) ELSE 6)

\* the bytes after the version byte are not those that were written
RestEdited == Suffix(read.bytes) # Suffix(TryToBytes(shrine))

\* C13: for every byte sequence whose first 6 bytes differ from "shrine" in
\* any byte, load returns Error::Read, whatever the bytes after the first 6
\* are: the version byte, the metadata and the payload are not examined.
C13_BadMagicIsRead ==
    (read.set /\ MagicOf(read.bytes) # MagicBytes)
        => read.result = Err(Error("Read"))

C13_Witness ==
    /\ read.set
    /\ Len(read.bytes) > HeadLen
    /\ MagicOf(read.bytes) # MagicBytes
    /\ RestEdited
    /\ read.result = Err(Error("Read"))

\* C14: for every byte sequence that starts with the magic "shrine" and whose
\* version byte v (offset 6) is greater than VERSION, load returns
\* UnsupportedVersion(v) with exactly that byte, whatever the bytes after
\* offset 6 are.
C14_NewerVersionIsUnsupported ==
    (/\ read.set
     /\ Len(read.bytes) >= HeadLen
     /\ MagicOf(read.bytes) = MagicBytes
     /\ read.bytes[HeadLen] > VERSION)
        => read.result = Err(UnsupportedVersion(read.bytes[HeadLen]))

C14_Witness ==
    /\ read.set
    /\ Len(read.bytes) >= HeadLen
    /\ MagicOf(read.bytes) = MagicBytes
    /\ read.bytes[HeadLen] > VERSION + 1
    /\ RestEdited
    /\ ~read.result.ok

\* C15: writing is the inverse of loading: loading the bytes written for a
\* closed shrine S succeeds and yields a closed shrine with the uuid, the
\* encryption algorithm, the serialization format and the payload bytes of S,
\* Clear for Plain and AES without passphrase for Aes, and opening it gives
\* back the secrets of S.
C15_LoadInvertsWrite ==
    (read.set /\ read.bytes = TryToBytes(shrine))
        => /\ read.result.ok
           /\ LET s == read.result.val
              IN /\ s.metadata = shrine.metadata
                 /\ s.payload = shrine.payload
                 /\ s.encryption = IF s.metadata.encryption_algorithm = "Plain"
                                    THEN Clear ELSE AesNoPassword
                 /\ LET o == IF ClosedClearImpl(s) THEN ClearOpen(s)
                                                   ELSE AesOpen(s, sealed.password)
                    IN o.ok /\ o.val.payload.secrets = sealed.secrets

C15_Witness ==
    /\ read.set
    /\ read.bytes = TryToBytes(shrine)
    /\ read.result.ok
    /\ ClosedAesImpl(read.result.val)
    /\ HolderSize(sealed.secrets) = 2

(***************************************************************************)
(* Properties of mv and rm                                                 *)
(***************************************************************************)
\* C16: mv(src, dst) between two local Open shrines replaces the holder of the
\* destination, both namespaces, with the holder of the source: every key of
\* the source is readable from the destination with the same bytes and mode,
\* no earlier key of the destination remains, and the uuid, the encryption
\* algorithm, the serialization format and the passphrase state of the
\* destination are unchanged.
C16_MvReplacesHolder ==
    [][last'.op = "mv" =>
          LET src == last'.source
          IN /\ \A k \in DOMAIN src.pub :
                    LocalGet(shrine', k) = Ok(src.pub[k])
             /\ \A k \in DOMAIN src.priv :
                    LocalGet(shrine', DotKey(k)) = Ok(src.priv[k])
             /\ LocalKeys(shrine') = DOMAIN src.pub
             /\ LocalKeysPrivate(shrine') = DOMAIN src.priv
             /\ shrine'.metadata = shrine.metadata
             /\ shrine'.encryption = shrine.encryption
             /\ IsOpen(shrine')]_vars

\* a destination that held a, in both namespaces, now holds what the source held
C16_Witness ==
    /\ last.op = "mv"
    /\ last.variant.kind = "Aes"
    /\ LocalKeys(shrine) = {<<"b">>}
    /\ LocalKeysPrivate(shrine) = {<<"a">>}
    /\ shrine.metadata.uuid = 1

\* C17: rm(k) on an Open shrine returns true exactly when k was present before
\* the call; afterwards get(k) fails with KeyNotFound, a second rm(k) returns
\* false and changes nothing, and every other key keeps its value.
C17_RmRemovesKey ==
    [][last'.op = "rm" =>
          LET k == last'.key
          IN /\ last'.ok <=> LocalGet(shrine, k).ok
             /\ ErrKind(LocalGet(shrine', k)) = "KeyNotFound"
             /\ ~LocalRm(shrine', k).removed
             /\ LocalRm(shrine', k).val = shrine'
             /\ \A other \in LookupKeys \ {k} :
                    LocalGet(shrine', other) = LocalGet(shrine, other)]_vars

C19_UuidImmutable ==
    [][last'.op \notin {"new", "convert"} =>
          shrine'.metadata.uuid = shrine.metadata.uuid]_vars

\* a shrine with secrets and a format other than the default was closed, and
\* its file was written and loaded
C19_Witness ==
    /\ last.op = "load"
    /\ last.ok
    /\ IsClosed(shrine)
    /\ shrine.metadata.serialization_format = "Json"
    /\ sealed.set
    /\ HolderSize(sealed.secrets) = MaxSecrets

\* C20: the ciphertext of a closed AES shrine is bound to its header: a payload
\* that close produced under uuid U fails to open with CryptoRead, even with
\* the correct passphrase, when it sits in a shrine file whose metadata uuid
\* differs from U.
C20_CiphertextBoundToUuid ==
    (/\ read.set
     /\ read.result.ok
     /\ ClosedAesImpl(shrine))
        => LET s == read.result.val
           IN (/\ ClosedAesImpl(s)
               /\ s.payload = shrine.payload
               /\ s.metadata.uuid # shrine.metadata.uuid)
                  => ErrKind(AesOpen(s, sealed.password)) = "CryptoRead"

(***************************************************************************)
(* Properties of the agent lifecycle                                       *)
(***************************************************************************)
\* agent a serves or drains, and the pid file and its socket file exist
LiveAgent(a) ==
    /\ agents[a].pc \in {"serving", "draining"}
    /\ disk.pid # None
    /\ disk.socket = a

C22_SecondAgentRefused ==
    [][\A a, b \in AgentIds :
          (a # b /\ LiveAgent(a) /\ ~agents[b].bound /\ agents'[b] # agents[b])
              => /\ disk' = disk
                 /\ agents'[a] = agents[a]
                 /\ ~agents'[b].bound
                 /\ agents'[b].pc \notin {"serving", "draining"}
                 /\ agents'[b].accepted = 0
                 /\ agents[b].pc = "scheduled" => agents'[b].pc = "refused"]_vars

\* the second agent was refused and has exited; the first one still serves and
\* has answered requests since
C22_Witness ==
    \E a, b \in AgentIds :
        /\ a # b
        /\ agents[b].pc = "exited"
        /\ ~agents[b].bound
        /\ agents[b].accepted = 0
        /\ agents[a].pc = "serving"
        /\ agents[a].completed = MaxRequests
        /\ disk = [pid |-> a, socket |-> a]

(***************************************************************************)
(* Properties of the cache                                                 *)
(***************************************************************************)
\* the sweeper job runs in this step
Sweeps == next_sweep' # next_sweep

\* C23: immediately after every run of the sweep at time now, every entry that
\* remains has an access time not older than now - TTL, every entry the run
\* removed had an access time at or before now - TTL, and the surviving
\* entries are unchanged, passphrase included.
C23_SweepRemovesExpired ==
    [][Sweeps =>
          /\ DOMAIN passwords' \subseteq DOMAIN passwords
          /\ \A u \in DOMAIN passwords :
                 IF u \in DOMAIN passwords'
                 THEN /\ passwords'[u] = passwords[u]
                      /\ passwords'[u].atime >= now - TTL
                 ELSE passwords[u].atime <= now - TTL]_vars

\* the sweep has just run, at a time when an entry can be TTL old: the entry
\* that a lookup had found is gone and a younger one is still there
C23_Witness ==
    /\ next_sweep = now + SweepPeriod
    /\ now >= TTL
    /\ lookup.found
    /\ lookup.uuid \notin DOMAIN passwords
    /\ \E u \in DOMAIN passwords : passwords[u].atime = now - TTL + 1

\* a PUT /passwords changes the cache in this step
Puts ==
    /\ passwords' # passwords
    /\ passwords' # NoPasswords
    /\ lookup' = lookup
    /\ ~Sweeps

\* a lookup returns in this step
LooksUp == lookup' # lookup

\* what a step of the cache may do to the entries
CacheStep ==
    /\ Puts =>
          \E u \in DOMAIN passwords' :
              /\ passwords'[u].atime = now
              /\ DOMAIN passwords' = DOMAIN passwords \cup {u}
              /\ \A o \in DOMAIN passwords \ {u} : passwords'[o] = passwords[o]
    /\ LooksUp =>
          LET u == lookup'.uuid
          IN IF u \in DOMAIN passwords
             THEN /\ lookup'.found
                  /\ lookup'.password = passwords[u].password
                  /\ DOMAIN passwords' = DOMAIN passwords
                  /\ passwords'[u] = ATimePassword(now, passwords[u].password)
                  /\ \A o \in DOMAIN passwords \ {u} : passwords'[o] = passwords[o]
             ELSE /\ ~lookup'.found
                  /\ passwords' = passwords
    /\ \A u \in DOMAIN passwords \ DOMAIN passwords' :
           Sweeps \/ passwords' = NoPasswords

\* C24: cache operations are atomic and refresh the access time. A PUT
\* /passwords {uuid, password} leaves exactly one entry for uuid, holding that
\* password with the time of the call, and no other entry changes; a lookup
\* hit returns the stored passphrase, sets the access time of that entry to
\* the time of the lookup and changes neither the passphrase nor another
\* entry; a miss changes nothing. Under every interleaving of lookups, sets
\* and the sweeper an entry is absent only after a sweep or a DELETE
\* /passwords, never in the middle of a refresh.
C24_CacheOpsAtomic ==
    /\ [](\A uuid \in Uuids, password \in PassphraseSet :
              LET p == AgentSetPassword(passwords, uuid, password, now)
              IN /\ DOMAIN p = DOMAIN passwords \cup {uuid}
                 /\ p[uuid] = ATimePassword(now, password)
                 /\ \A o \in DOMAIN passwords \ {uuid} : p[o] = passwords[o])
    /\ [][CacheStep]_vars

\* a lookup has just refreshed an entry that was put earlier, next to an entry
\* that kept its older access time
C24_Witness ==
    /\ lookup.found
    /\ lookup.age > 0
    /\ lookup.uuid \in DOMAIN passwords
    /\ passwords[lookup.uuid] = ATimePassword(now, lookup.password)
    /\ \E o \in DOMAIN passwords :
           /\ o # lookup.uuid
           /\ passwords[o].atime < now
           /\ passwords[o].password # lookup.password

\* a step of the /passwords handlers that takes entries away: DELETE /passwords
Deletes ==
    /\ clients' = clients
    /\ DOMAIN passwords' # DOMAIN passwords
    /\ DOMAIN passwords' \subseteq DOMAIN passwords

\* what a step may do around a DELETE /passwords
DeleteStep ==
    /\ Deletes => passwords' = NoPasswords
    /\ \A u \in DOMAIN passwords' \ DOMAIN passwords :
           clients' = clients /\ files' = files
    /\ \A c \in Clients :
           Opens(c) =>
               LET file == files[clients'[c].path]
                   uuid == file.shrine.metadata.uuid
               IN (/\ file.kind = "Shrine"
                   /\ RequiresPassword(file.shrine)
                   /\ uuid \notin DOMAIN passwords)
                      => /\ clients'[c].resp = Response("Unauthorized", uuid, {})
                         /\ clients'[c].pc = "done"
                         /\ passwords' = passwords
                         /\ files' = files

\* C25: after DELETE /passwords completes the cache holds no entry, and an
\* entry comes back under a uuid only by a PUT /passwords; until then every
\* GET or PUT /keys that opens an AES shrine of that uuid answers
\* Unauthorized(uuid), whatever was cached before.
C25_DeleteDropsAll ==
    [][DeleteStep]_vars

\* a client has put a key in the AES shrine with the cached passphrase; the
\* other client has then seen the file it wrote and was answered Unauthorized,
\* the cache being empty
C25_Witness ==
    \E c, d \in Clients :
        /\ PutDone(d)
        /\ clients[d].wrote
        /\ clients[d].seen_entry # {}
        /\ RequiresPassword(clients[d].seen_file.shrine)
        /\ clients[c].pc = "done"
        /\ clients[c].seen_file = files[clients[d].path]
        /\ clients[c].seen_file # clients[d].seen_file
        /\ clients[c].resp = Response("Unauthorized", clients[c].seen_file.shrine.metadata.uuid, {})
        /\ passwords = NoPasswords

\* what GET /keys/path/key answers now, the clock standing
GetAnswer(path, key) ==
    LET o == OpenShrine(passwords, files[path], now)
        g == IF o.ok THEN LocalGet(o.shrine, key) ELSE Err(KeyNotFound(key))
    IN IF ~o.ok THEN o.resp
       ELSE IF ~g.ok THEN Response("KeyNotFound", 0, {})
       ELSE Response("Secret", 0, {g.val})

\* the passphrase that client c opened the file with is the one now cached for
\* the file at its path, or the file needs none
StillCached(c) ==
    LET file == files[clients[c].path]
    IN /\ file.kind = "Shrine"
       /\ RequiresPassword(file.shrine)
              => Cached(passwords, file) = {clients[c].password}

\* C26: mutations through the agent are persisted synchronously: once PUT
\* /keys/{path}/{key} has answered 204, the shrine file at path holds the
\* secret under key, bytes and mode as given, closed with the passphrase it
\* was opened with, so that a later GET /keys/{path}/{key}, the passphrase
\* still being cached, returns that secret.
C26_PutIsPersisted ==
    \A c \in Clients :
        (PutDone(c) /\ StillCached(c))
            => GetAnswer(clients[c].path, clients[c].key)
                   = Response("Secret", 0, clients[c].secret)

(***************************************************************************)
(* Properties of the controller and of OpenShrine                          *)
(***************************************************************************)
\* C27: moving a local Open shrine into a Remote shrine is rejected with an
\* Unsupported error value that the caller receives: the call does not abort
\* the process, and the remote shrine is not modified.
C27_MvIntoRemoteUnsupported ==
    last.op = "mv_remote"
        => /\ ~last.ok
           /\ last.err = "Unsupported"
           /\ last.remote = RemoteShrine("P")

\* C28: init without force on a path that exists returns
\* FileAlreadyExists(path) before anything else happens: no passphrase is asked
\* for, no shrine is made and the file is left unchanged. With force, or when
\* the path does not exist, init asks for the passphrase unless Plain was
\* chosen and, when it succeeds, has written a new closed shrine with a fresh
\* uuid, which opens to an empty holder.
C28_InitRefusesExisting ==
    [][last'.op = "init" =>
          LET path == last'.path
          IN IF ~last'.force /\ Exists(files[path])
             THEN /\ last'.result = Err(FileAlreadyExists(path))
                  /\ last'.asked = <<>>
                  /\ files' = files
             ELSE /\ ErrKind(last'.result) # "FileAlreadyExists"
                  /\ last'.result.ok =>
                         LET loaded == ShrineFromPath(files'[path])
                             uuid   == last'.result.val
                             plain  == last'.encryption = "Plain"
                         IN /\ loaded.ok
                            /\ IsClosed(loaded.val)
                            /\ loaded.val.metadata.uuid = uuid
                            /\ uuid \notin UuidsOf(files[path])
                            /\ RequiresPassword(loaded.val) <=> ~plain
                            /\ last'.asked = IF plain THEN <<>> ELSE <<uuid>>
                            /\ LET o == ShrineOpen(loaded.val, last'.password)
                               IN o.ok /\ o.val.payload.secrets = HolderNew
                            /\ \A q \in Paths \ {path} : files'[q] = files[q]]_vars

\* init without force was refused on a path that holds an AES shrine, which
\* is still there
C28_Witness ==
    /\ last.op = "init"
    /\ ~last.force
    /\ last.result = Err(FileAlreadyExists(last.path))
    /\ last.asked = <<>>
    /\ last.before.kind = "Shrine"
    /\ RequiresPassword(last.before.shrine)
    /\ files[last.path] = last.before

(***************************************************************************)
(* Properties of rm and set on keys that exist                             *)
(***************************************************************************)
\* C29: rm routes a dotted key to the private namespace as get and set do:
\* when k is in the private namespace, rm(".k") returns true and removes it
\* (get(".k") is then KeyNotFound and keys_private() no longer lists k), and
\* it never removes or alters a public key.
C29_RmRoutesDottedKey ==
    [][(/\ last'.op = "rm"
        /\ HasPrefixDot(last'.key)
        /\ StripPrefixDot(last'.key) \in LocalKeysPrivate(shrine))
           => /\ last'.ok
              /\ ErrKind(LocalGet(shrine', last'.key)) = "KeyNotFound"
              /\ StripPrefixDot(last'.key) \notin LocalKeysPrivate(shrine')
              /\ \A k \in LocalKeys(shrine) : LocalGet(shrine', k) = LocalGet(shrine, k)
              /\ LocalKeys(shrine') = LocalKeys(shrine)]_vars

\* C30: set on a key that exists overwrites it in place: get(k) then returns
\* the new bytes with the new mode, the keys of both namespaces are those of
\* before, and every other key keeps its value, for public keys and for
\* private (dotted) keys alike.
C30_SetOverwritesInPlace ==
    [][(last'.op = "set" /\ LocalGet(shrine, last'.key).ok)
           => /\ last'.ok
              /\ last'.existed
              /\ {LocalGet(shrine', last'.key).val} = last'.found
              /\ LocalKeys(shrine') = LocalKeys(shrine)
              /\ LocalKeysPrivate(shrine') = LocalKeysPrivate(shrine)
              /\ \A other \in (LocalKeys(shrine) \cup
                                 {DotKey(k) : k \in LocalKeysPrivate(shrine)}) \ {last'.key} :
                     LocalGet(shrine', other) = LocalGet(shrine, other)]_vars

\* a private key that existed was set again, to other bytes and another mode
\* than the public key of the same shrine
C30_Witness ==
    /\ last.op = "set"
    /\ last.ok
    /\ last.existed
    /\ HasPrefixDot(last.key)
    /\ LocalGet(shrine, last.key) = Ok(SecretNew(<<2, 1>>, "Binary"))
    /\ LocalGet(shrine, <<"b">>) = Ok(SecretNew(<<1>>, "Text"))


(***************************************************************************)
(* Properties of the load of short files, of the metadata and of the       *)
(* password provider                                                       *)
(***************************************************************************)
\* C31: loading is total: for every byte sequence, every sequence shorter
\* than 7 bytes and exactly the 6 bytes "shrine" included, load returns a
\* closed shrine or an error value; it never aborts (no panic on an index
\* past the end of the input).
C31_LoadIsTotal ==
    read.set => read.result # Panic

\* the variant of metadata.encryption_algorithm and the type parameter agree
Agrees(s) ==
    /\ s.metadata.encryption_algorithm = "Plain" <=> s.encryption = Clear
    /\ s.metadata.encryption_algorithm = "Aes" <=> s.encryption.kind = "Aes"

\* the bytes of closed shrine s with the byte of the encryption algorithm set
WithEncryptionTag(s, tag) == [TryToBytes(s) EXCEPT ![HeadLen + 2] = tag]

\* the operation of the last step changed the algorithm or the variant
ChangesEncryption ==
    \/ shrine'.metadata.encryption_algorithm # shrine.metadata.encryption_algorithm
    \/ shrine'.encryption.kind # shrine.encryption.kind

\* C32: in every reachable state of a shrine the encryption algorithm of the
\* metadata agrees with the cryptographic variant: Plain exactly when the
\* shrine is Clear, Aes exactly when it is AES, with or without passphrase.
\* A new shrine is Aes, into_clear sets Plain, into_aes and
\* into_aes_with_password set Aes, load takes the variant from the stored
\* tag, and no other operation on a shrine changes either side (convert makes
\* a new shrine and applies into_clear or set_password to it).
C32_AlgorithmAgreesWithVariant ==
    /\ [](/\ Agrees(shrine)
          /\ IsClosed(shrine) =>
                \A tag \in EncryptionTags :
                    LET r == TryFromBytes(WithEncryptionTag(shrine, tag))
                    IN /\ r.ok
                       /\ r.val.metadata.encryption_algorithm = TagEncryption(tag)
                       /\ Agrees(r.val))
    /\ [][/\ last'.op = "into_clear" =>
                shrine'.metadata.encryption_algorithm = "Plain"
          /\ last'.op \in {"into_aes", "into_aes_with_password"} =>
                shrine'.metadata.encryption_algorithm = "Aes"
          /\ (last'.op = "load" /\ last'.ok) =>
                shrine'.encryption =
                    IF shrine.metadata.encryption_algorithm = "Plain"
                    THEN Clear ELSE AesNoPassword
          /\ ChangesEncryption =>
                last'.op \in {"into_clear", "into_aes", "into_aes_with_password",
                              "convert"}]_vars

\* a shrine made Clear, closed and written is loaded as a Clear shrine with
\* the algorithm Plain
C32_Witness ==
    /\ last.op = "load"
    /\ last.ok
    /\ shrine.metadata.encryption_algorithm = "Plain"
    /\ ClosedClearImpl(shrine)
    /\ HolderSize(sealed.secrets) > 0

\* the shrine that shrine::new returned to the client process
Obtained == handle.closed.val

\* C33: a passphrase is requested only when it is needed.  Opening a closed
\* shrine calls the password provider exactly once, with the uuid of that
\* shrine, when the shrine is local AES, and never when it is local Clear or
\* Remote; an init that goes on to make a shrine calls it exactly once for
\* AES (the default) and never for Plain.  A shrine obtained while the agent
\* is running is Remote, otherwise it is what the load of the file returns.
C33_PassphraseOnlyWhenNeeded ==
    [][/\ (handle.pc = "closed" /\ handle'.pc # "closed") =>
              handle'.asked = IF Obtained.variant = "LocalAes"
                              THEN <<Obtained.shrine.metadata.uuid>>
                              ELSE <<>>
       /\ (last'.op = "init" /\ last'.err # "FileAlreadyExists") =>
              Len(last'.asked) = IF last'.encryption = "Plain" THEN 0 ELSE 1
       /\ (handle.pc = "none" /\ handle'.pc # "none") =>
              IF handle'.running
              THEN handle'.closed = Ok(RemoteShrine(handle'.path))
              ELSE /\ handle'.closed.ok <=> files[handle'.path].kind = "Shrine"
                   /\ handle'.closed.ok =>
                        LET stored == files[handle'.path].shrine
                            got    == handle'.closed.val
                        IN /\ got.variant = IF stored.metadata.encryption_algorithm = "Plain"
                                            THEN "LocalClear" ELSE "LocalAes"
                           /\ got.shrine.metadata = stored.metadata
                           /\ got.shrine.payload = stored.payload
                   /\ files[handle'.path].kind = "Missing" =>
                        handle'.closed = Err(Error("FileNotFound"))]_vars

\* the AES shrine that init made with uuid 2 is loaded by a client whose agent
\* is not running and opened: the provider was called once, with uuid 2
C33_Witness ==
    /\ handle.pc = "open"
    /\ ~handle.running
    /\ Obtained.variant = "LocalAes"
    /\ Obtained.shrine.metadata.uuid = 2
    /\ handle.asked = <<2>>
    /\ handle.opened.val.variant = "LocalAes"

(***************************************************************************)
(* Properties of the writes of the agent                                   *)
(***************************************************************************)
\* client c's request ends in this step with the answer of open_shrine
EndsAtOpen(c) == Opens(c) /\ clients'[c].pc = "done"

\* the cache holds the same passphrases under the same uuids; only the access
\* time of the entry under uuid may differ
SamePassphrases(uuid) ==
    /\ DOMAIN passwords' = DOMAIN passwords
    /\ \A u \in DOMAIN passwords :
           /\ passwords'[u].password = passwords[u].password
           /\ u # uuid => passwords'[u] = passwords[u]

\* C34: the agent writes the shrine file only on a successful mutation.  A
\* GET /keys never modifies the file; a PUT /keys that answers
\* file-not-found, read error, Unauthorized or Forbidden leaves the file as
\* it is, byte for byte, and the cached passphrases as they are: only the
\* access time of the entry that was looked up may be refreshed.  The file
\* changes only in the step of a PUT whose open_shrine and set succeeded.
C34_WritesOnlyOnMutation ==
    [][/\ \A c \in Clients :
            /\ (Opens(c) /\ clients'[c].op = "get") =>
                   /\ files' = files
                   /\ clients'[c].pc = "done"
                   /\ ~clients'[c].wrote
                   /\ SamePassphrases(files[clients'[c].path].shrine.metadata.uuid)
            /\ (Opens(c) /\ clients'[c].op = "put"
                    /\ clients'[c].resp.kind \in OpenErrors) =>
                   /\ files' = files
                   /\ EndsAtOpen(c)
                   /\ ~clients'[c].wrote
                   /\ SamePassphrases(files[clients'[c].path].shrine.metadata.uuid)
            /\ (clients[c].pc = "done" /\ clients[c].resp.kind \in OpenErrors) =>
                   /\ clients'[c] = clients[c]
                   /\ ~clients[c].wrote
       /\ (files' # files /\ corrupted' = corrupted) =>
              \E c \in Clients :
                  /\ clients[c].pc = "opened"
                  /\ clients'[c].pc = "done"
                  /\ clients[c].open_resp = NoResponse
                  /\ LET r      == clients[c]
                         secret == CHOOSE x \in r.secret : TRUE
                     IN LocalSet(r.shrine, r.key, secret.value, secret.mode).ok]_vars

\* a PUT on an AES file was answered Forbidden with the wrong passphrase that
\* is cached; the entry is there with the time of the lookup, a passphrase is
\* cached under the other uuid as well, and the file is the one that was read
C34_Witness ==
    \E c \in Clients :
        /\ clients[c].op = "put"
        /\ clients[c].pc = "done"
        /\ clients[c].resp = Response("Forbidden", 1, {})
        /\ ~clients[c].wrote
        /\ files[clients[c].path] = clients[c].seen_file
        /\ DOMAIN passwords = {1, 2}
        /\ passwords[1] = ATimePassword(now, "q")

====
